---- MODULE Spec2Model ----
(***************************************************************************)
(* Authentication and session-lifecycle core of the backend: the Auth      *)
(* Orchestrator (AuthService), the Credential Store Adapter                *)
(* (AuthRepository over the prisma client and its query extension), the    *)
(* ephemeral cache (user records, OTP staging, revoked tokens, the Request *)
(* Gate's projection) and the Request Gate (authenticate).                 *)
(*                                                                         *)
(* Every handler is a pure operator over a "world" record W (the store and *)
(* the caches) that returns the world after the call and the response.     *)
(* The actions of Spec apply one whole handler per step (one request at a  *)
(* time); the actions of SpecRace run requests step by step between the    *)
(* suspension points of the code, so that two requests interleave.         *)
(***************************************************************************)
EXTENDS Integers, FiniteSets, Sequences, TLC

VARIABLES
    users,      \* the User table: a set of user records (unique id, unique email)
    idCache,    \* cache entries  user:<id>          -> user record, with expiry
    emailCache, \* cache entries  user:email:<email> -> user record, with expiry
    otpCache,   \* cache entries  otp:<type>:<email> -> code, with expiry
    blacklist,  \* cache entries  blacklist:token:<token> -> '1', with expiry
    gateCache,  \* cache entries  auth:user:<id>     -> gate projection, with expiry
    issued,     \* every token pair handed to a client so far
    now,        \* the clock, in ticks of five minutes
    last,       \* the response of the request that completed last
    revoked,    \* history: refresh tokens a completed logout was given while unexpired
    rotated,    \* history: refresh tokens a successful refreshToken has replaced
    staged,     \* history: the code staged last for each (email, type), until consumed
    inflight    \* SpecRace: the requests in flight, with their position and locals

vars == <<users, idCache, emailCache, otpCache, blacklist, gateCache, issued, now,
          last, revoked, rotated, staged, inflight>>

----------------------------------------------------------------------------
(* Bounds of the model *)

MaxUsers == 2       \* rows the User table may hold
MaxTime == 3        \* the clock stops here
MaxTokens == 2      \* token pairs issued in one behaviour
MaxInflight == 2    \* concurrent requests in SpecRace

(* Program constants, in ticks of five minutes *)
USER_CACHE_TTL == 3             \* 15 * 60 s
OTP_CACHE_TTL == 2              \* 10 * 60 s
OTP_VALIDITY == 2               \* Date.now() + 10 * 60 * 1000
USER_MIDDLEWARE_CACHE_TTL == 1  \* 5 * 60 s
ACCESS_TTL == 1                 \* the access token's lifetime (short)
REFRESH_TTL == 3                \* the refresh token's lifetime (long)

Emails == {<<"user", 1>>, <<"user", 2>>}   \* a@x.com, b@x.com
GuestEmail(id) == <<"guest", id>>       \* guest_<timestamp>_<random>@guest.local
Passwords == {"Secret123!", "Other456!"}
RandomPassword == "random"              \* guest_<timestamp>_<random>
Codes == {"111111", "222222"}           \* generateOtp(): a 6-digit code
OtpTypes == {"emailVerification", "forgotPassword"}
UserIds == 1..MaxUsers

NoCode == "null"
NoTime == -1
NoToken == [kind |-> "null", uid |-> 0, iat |-> 0, n |-> 0]
Garbage == [kind |-> "garbage", uid |-> 0, iat |-> 0, n |-> 0]

----------------------------------------------------------------------------
(* Password hashing: hashPassword / comparePassword (bcrypt). A password   *)
(* value is the plaintext it came from and the number of times it was      *)
(* hashed; comparePassword accepts exactly hash(plaintext).                *)

Plain(p) == [plain |-> p, rounds |-> 0]
hashPassword(v) == [v EXCEPT !.rounds = @ + 1]
comparePassword(p, stored) == stored = hashPassword(Plain(p))

\* the prisma client without the extension: the data is stored as given
PrismaNoExtension(v) == v

\* prisma $extends query.user.create / update: a password in the data is hashed
PrismaPasswordHook(v) == hashPassword(v)

----------------------------------------------------------------------------
(* Token Service: generateTokens / verifyToken / verifyRefreshToken.       *)
(* A pair is identified by its serial n; both tokens carry the user id.    *)

AccessOf(p) == [kind |-> "access", uid |-> p.uid, iat |-> p.iat, n |-> p.n]
RefreshOf(p) == [kind |-> "refresh", uid |-> p.uid, iat |-> p.iat, n |-> p.n]
TokenExp(t) == t.iat + (IF t.kind = "access" THEN ACCESS_TTL ELSE REFRESH_TTL)
verifyToken(t) == t.kind = "access" /\ now < TokenExp(t)
verifyRefreshToken(t) == t.kind = "refresh" /\ now < TokenExp(t)
NewPair(W, uid) == [uid |-> uid, iat |-> now, n |-> Cardinality(W.issued) + 1]
generateTokens(W, uid) == [W EXCEPT !.issued = @ \cup {NewPair(W, uid)}]

\* the tokens a client can present
AccessTokens(W) == {AccessOf(p) : p \in W.issued} \cup {Garbage}
RefreshTokens(W) == {RefreshOf(p) : p \in W.issued} \cup {Garbage}

----------------------------------------------------------------------------
(* The world a handler runs in *)

Cur == [users |-> users, idCache |-> idCache, emailCache |-> emailCache,
        otpCache |-> otpCache, blacklist |-> blacklist, gateCache |-> gateCache,
        issued |-> issued]

Commit(W) ==
    /\ users' = W.users
    /\ idCache' = W.idCache
    /\ emailCache' = W.emailCache
    /\ otpCache' = W.otpCache
    /\ blacklist' = W.blacklist
    /\ gateCache' = W.gateCache
    /\ issued' = W.issued

The(S) == CHOOSE x \in S : TRUE

\* an outcome: status and message, the refresh token of the pair returned, and the
\* mail the request handed to sendEmail
NoMail == [to |-> <<"user", 0>>, code |-> NoCode]
\* a response without a user object
NoUser == [f \in {} |-> ""]
Resp(status, msg) ==
    [status |-> status, msg |-> msg, tok |-> NoToken, mail |-> NoMail, user |-> NoUser]
RespTok(status, msg, pair) ==
    [status |-> status, msg |-> msg, tok |-> RefreshOf(pair), mail |-> NoMail,
     user |-> NoUser]

\* AuthDto.toResponse without the four overrides: the row as it is
toResponseRaw(data) == data

\* AuthDto.toResponse: the row with password, otpCode, otpExpiresAt and refreshToken
\* set to undefined, which JSON leaves out
toResponse(data) ==
    [f \in DOMAIN data \ {"password", "otpCode", "otpExpiresAt", "refreshToken"}
        |-> data[f]]
\* { user: safeData } in the data of the response
WithUser(r, data) == [r EXCEPT !.user = toResponse(data)]
\* sendEmail(email, subject, template(otpCode)) was called by the request
Mailed(r, email, otpCode) == [r EXCEPT !.mail = [to |-> email, code |-> otpCode]]
Ok(r) == r.status \in {200, 201}

----------------------------------------------------------------------------
(* Cache: cacheGet / cacheSet / cacheDel, keys expire at set time + TTL    *)

Live(C) == {c \in C : c.exp > now}

StoreByEmail(W, email) == {u \in W.users : u.email = email}
StoreById(W, id) == {u \in W.users : u.id = id}

IdCacheGet(W, id) == {c.val : c \in {x \in Live(W.idCache) : x.id = id}}
IdCacheDel(W, id) == [W EXCEPT !.idCache = {x \in @ : x.id # id}]
IdCacheSet(W, id, u) ==
    [W EXCEPT !.idCache = {x \in @ : x.id # id}
                          \cup {[id |-> id, val |-> u, exp |-> now + USER_CACHE_TTL]}]

EmailCacheGet(W, email) == {c.val : c \in {x \in Live(W.emailCache) : x.email = email}}
EmailCacheDel(W, email) == [W EXCEPT !.emailCache = {x \in @ : x.email # email}]
EmailCacheSet(W, email, u) ==
    [W EXCEPT !.emailCache = {x \in @ : x.email # email}
                  \cup {[email |-> email, val |-> u, exp |-> now + USER_CACHE_TTL]}]

----------------------------------------------------------------------------
(* AuthRepository *)

\* prisma.user.create: the row with the schema's defaults, the password hashed
NewUser(W, payload) ==
    [id |-> Cardinality(W.users) + 1,
     email |-> payload.email,
     password |-> PrismaPasswordHook(Plain(payload.password)),
     role |-> "USER",
     userType |-> payload.userType,
     signupMethod |-> payload.signupMethod,
     isEmailVerified |-> payload.isEmailVerified,
     isActive |-> TRUE,
     isDeleted |-> FALSE,
     otpCode |-> NoCode,
     otpExpiresAt |-> NoTime,
     refreshToken |-> NoToken]

\* a user table without the index User_email_key
NoUniqueIndex(W, email) == FALSE

\* the unique index User_email_key rejects the insert
UniqueViolation(W, email) == StoreByEmail(W, email) # {}

RepoCreate(W, payload) ==
    LET user == NewUser(W, payload)
        W1 == [W EXCEPT !.users = @ \cup {user}]
        W2 == IdCacheSet(W1, user.id, user)
    IN  EmailCacheSet(W2, user.email, user)

findByEmail(W, email, useCache) ==
    LET cached == IF useCache THEN EmailCacheGet(W, email) ELSE {}
        stored == StoreByEmail(W, email)
    IN  IF cached # {} THEN [u |-> cached, w |-> W]
        ELSE [u |-> stored,
              w |-> IF stored # {} /\ useCache
                    THEN EmailCacheSet(W, email, The(stored)) ELSE W]

findById(W, id) ==
    LET cached == IdCacheGet(W, id)
        stored == StoreById(W, id)
    IN  IF cached # {} THEN [u |-> cached, w |-> W]
        ELSE [u |-> stored,
              w |-> IF stored # {} THEN IdCacheSet(W, id, The(stored)) ELSE W]

findByEmailWithPassword(W, email) == StoreByEmail(W, email)

\* prisma.user.update({ where: { email }, data }): the row, changed as data says
\* (data maps each row to the row with the fields of the update set)
UpdateWhereEmail(W, email, data) ==
    [W EXCEPT !.users = {IF u.email = email THEN data[u] ELSE u : u \in @}]
UpdateWhereId(W, id, data) ==
    [W EXCEPT !.users = {IF u.id = id THEN data[u] ELSE u : u \in @}]

updateOtp(W, email, otp, otpExpiresAt) ==
    LET Set == [u \in W.users |->
                   [u EXCEPT !.otpCode = otp, !.otpExpiresAt = otpExpiresAt]]
        id == The(StoreByEmail(W, email)).id
    IN  IdCacheDel(EmailCacheDel(UpdateWhereEmail(W, email, Set), email), id)

\* verifyEmail that clears the OTP fields and leaves isEmailVerified as it is
verifyEmailOtpOnly(W, email) ==
    LET Set == [u \in W.users |-> [u EXCEPT !.otpCode = NoCode, !.otpExpiresAt = NoTime]]
        id == The(StoreByEmail(W, email)).id
    IN  IdCacheDel(EmailCacheDel(UpdateWhereEmail(W, email, Set), email), id)

verifyEmail(W, email) ==
    LET Set == [u \in W.users |->
                   [u EXCEPT !.isEmailVerified = TRUE, !.otpCode = NoCode,
                             !.otpExpiresAt = NoTime]]
        id == The(StoreByEmail(W, email)).id
    IN  IdCacheDel(EmailCacheDel(UpdateWhereEmail(W, email, Set), email), id)

\* updatePassword that sets the password and leaves the OTP fields of the row
updatePasswordOnly(W, email, password) ==
    LET Set == [u \in W.users |-> [u EXCEPT !.password = PrismaPasswordHook(password)]]
        id == The(StoreByEmail(W, email)).id
    IN  IdCacheDel(EmailCacheDel(UpdateWhereEmail(W, email, Set), email), id)

\* password is a password value: the extension hashes whatever it is given
updatePassword(W, email, password) ==
    LET Set == [u \in W.users |->
                   [u EXCEPT !.password = PrismaPasswordHook(password),
                             !.otpCode = NoCode, !.otpExpiresAt = NoTime]]
        id == The(StoreByEmail(W, email)).id
    IN  IdCacheDel(EmailCacheDel(UpdateWhereEmail(W, email, Set), email), id)

updateRefreshToken(W, userId, refreshToken) ==
    LET Set == [u \in W.users |-> [u EXCEPT !.refreshToken = refreshToken]]
    IN  IdCacheDel(UpdateWhereId(W, userId, Set), userId)

\* updateProfile as convertGuestToRegistered calls it: email, password, signupMethod
updateProfile(W, userId, email, password, signupMethod) ==
    LET Set == [u \in W.users |->
                   [u EXCEPT !.email = email,
                             !.password = PrismaPasswordHook(Plain(password)),
                             !.signupMethod = signupMethod]]
    IN  EmailCacheDel(IdCacheDel(UpdateWhereId(W, userId, Set), userId), email)

setOtpCache(W, email, type, otp) ==
    [W EXCEPT !.otpCache = {x \in @ : ~(x.email = email /\ x.type = type)}
              \cup {[email |-> email, type |-> type, code |-> otp,
                     exp |-> now + OTP_CACHE_TTL]}]
getOtpCache(W, email, type) ==
    {x.code : x \in {c \in Live(W.otpCache) : c.email = email /\ c.type = type}}
deleteOtpCache(W, email, type) ==
    [W EXCEPT !.otpCache = {x \in @ : ~(x.email = email /\ x.type = type)}]

\* blacklistToken with the TTL of a short-lived key in place of expiresIn
blacklistTokenShortTtl(W, token, expiresIn) ==
    [W EXCEPT !.blacklist = {x \in @ : x.token # token}
              \cup {[token |-> token, exp |-> now + USER_MIDDLEWARE_CACHE_TTL]}]

blacklistToken(W, token, expiresIn) ==
    [W EXCEPT !.blacklist = {x \in @ : x.token # token}
              \cup {[token |-> token, exp |-> now + expiresIn]}]
isTokenBlacklisted(W, token) == \E x \in Live(W.blacklist) : x.token = token

----------------------------------------------------------------------------
(* AuthService: each handler returns [w |-> the world after, r |-> response] *)

Out(W, r) == [w |-> W, r |-> r]

\* errors that are no AppError: thrown by the prisma client, not caught by the service
PrismaUniqueError == Resp(500, "Unique constraint failed on the fields: (email)")
PrismaNotFoundError == Resp(500, "Record to update not found")
\* verifyToken / verifyRefreshToken throw on an expired, malformed or forged token
InvalidTokenError == Resp(401, "Invalid token")

SignupPayload(email, password) ==
    [email |-> email, password |-> password, signupMethod |-> "EMAIL",
     userType |-> "REGISTERED", isEmailVerified |-> FALSE]

\* signup, lines 66-84: create, stage the OTP on the row and in the cache, send the mail
\* signup's tail with the mail failure surfacing as in resendOtp
SignupCreateMailFatal(W, email, password, otpCode, mailOk) ==
    IF UniqueViolation(W, email) THEN Out(W, PrismaUniqueError)
    ELSE LET W1 == RepoCreate(W, SignupPayload(email, password))
             W2 == updateOtp(W1, email, otpCode, now + OTP_VALIDITY)
             W3 == setOtpCache(W2, email, "emailVerification", otpCode)
             user == The(StoreByEmail(W1, email))
         IN  IF mailOk
             THEN Out(W3, Mailed(WithUser(Resp(201, "Please verify your email."), user),
                                 email, otpCode))
             ELSE Out(W3, Mailed(Resp(400, "Failed to send email"), email, otpCode))

\* mailOk: sendEmail resolves; when it throws, the catch logs and signup goes on
SignupCreate(W, email, password, otpCode, mailOk) ==
    IF UniqueViolation(W, email) THEN Out(W, PrismaUniqueError)
    ELSE LET W1 == RepoCreate(W, SignupPayload(email, password))
             W2 == updateOtp(W1, email, otpCode, now + OTP_VALIDITY)
             W3 == setOtpCache(W2, email, "emailVerification", otpCode)
             user == The(StoreByEmail(W1, email))
             sent == Mailed(WithUser(Resp(201, "Please verify your email."), user),
                            email, otpCode)
         IN  IF mailOk THEN Out(W3, sent) ELSE Out(W3, sent)

signup(W, email, password, otpCode, mailOk) ==
    LET existingUser == findByEmail(W, email, TRUE)
    IN  IF existingUser.u # {}
        THEN Out(existingUser.w, Resp(409, "Email already exists"))
        ELSE SignupCreate(existingUser.w, email, password, otpCode, mailOk)

\* generateTokens without updateRefreshToken: the pair is returned and not stored
IssueTokensUnpersisted(W, userId, msg) ==
    LET pair == NewPair(W, userId)
        user == The(StoreById(W, userId))
    IN  Out(generateTokens(W, userId), WithUser(RespTok(200, msg, pair), user))

\* generateTokens + updateRefreshToken, the tail of every operation that logs a user in
IssueTokens(W, userId, msg) ==
    LET pair == NewPair(W, userId)
        W1 == generateTokens(W, userId)
        user == The(StoreById(W, userId))
    IN  Out(updateRefreshToken(W1, userId, RefreshOf(pair)),
            WithUser(RespTok(200, msg, pair), user))

\* verifyOtp's check without the test of otpExpiresAt
OtpCheckNoExpiry(W, email, otp, type) ==
    LET cachedOtp == getOtpCache(W, email, type)
        user == findByEmail(W, email, FALSE).u
    IN  IF cachedOtp # {} /\ The(cachedOtp) = otp THEN "ok"
        ELSE IF user = {} \/ The(user).otpCode = NoCode \/ The(user).otpCode # otp
        THEN "Invalid or expired OTP code"
        ELSE "ok"

\* login that ends the user's session when the password is wrong
loginRevokingSession(W, email, password) ==
    LET user == findByEmailWithPassword(W, email)
    IN  IF user = {} THEN Out(W, Resp(401, "Invalid email or password"))
        ELSE IF ~The(user).isActive THEN Out(W, Resp(403, "Account is deactivated"))
        ELSE IF The(user).isDeleted THEN Out(W, Resp(403, "Account has been deleted"))
        ELSE IF ~comparePassword(password, The(user).password)
        THEN Out(updateRefreshToken(W, The(user).id, NoToken),
                 Resp(401, "Invalid email or password"))
        ELSE IF ~The(user).isEmailVerified
        THEN Out(W, Resp(401, "Please verify your email before logging in"))
        ELSE IssueTokens(W, The(user).id, "Login successful")

login(W, email, password) ==
    LET user == findByEmailWithPassword(W, email)
    IN  IF user = {} THEN Out(W, Resp(401, "Invalid email or password"))
        ELSE IF ~The(user).isActive THEN Out(W, Resp(403, "Account is deactivated"))
        ELSE IF The(user).isDeleted THEN Out(W, Resp(403, "Account has been deleted"))
        ELSE IF ~comparePassword(password, The(user).password)
        THEN Out(W, Resp(401, "Invalid email or password"))
        ELSE IF ~The(user).isEmailVerified
        THEN Out(W, Resp(401, "Please verify your email before logging in"))
        ELSE IssueTokens(W, The(user).id, "Login successful")

\* verifyOtp, lines 148-166: the cache check, then the database fallback
OtpCheck(W, email, otp, type) ==
    LET cachedOtp == getOtpCache(W, email, type)
        user == findByEmail(W, email, FALSE).u
    IN  IF cachedOtp # {} /\ The(cachedOtp) = otp THEN "ok"
        ELSE IF user = {} \/ The(user).otpCode = NoCode \/ The(user).otpCode # otp
        THEN "Invalid or expired OTP code"
        ELSE IF The(user).otpExpiresAt = NoTime \/ The(user).otpExpiresAt < now
        THEN "OTP code has expired"
        ELSE "ok"

\* verifyOtp that consumes the OTP of the row for forgotPassword as well
verifyOtpConsuming(W, email, otp, type) ==
    LET check == OtpCheck(W, email, otp, type)
    IN  IF check # "ok" THEN Out(W, Resp(400, check))
        ELSE IF type = "emailVerification"
        THEN IF StoreByEmail(W, email) = {} THEN Out(W, PrismaNotFoundError)
             ELSE LET W1 == verifyEmail(W, email)
                      W2 == deleteOtpCache(W1, email, type)
                  IN  IssueTokens(W2, The(StoreByEmail(W, email)).id,
                                  "Email verified successfully")
        ELSE IF StoreByEmail(W, email) = {} THEN Out(W, PrismaNotFoundError)
        ELSE Out(deleteOtpCache(updateOtp(W, email, NoCode, NoTime), email, type),
                 Resp(200, "verified"))

verifyOtp(W, email, otp, type) ==
    LET check == OtpCheck(W, email, otp, type)
    IN  IF check # "ok" THEN Out(W, Resp(400, check))
        ELSE IF type = "emailVerification"
        THEN IF StoreByEmail(W, email) = {} THEN Out(W, PrismaNotFoundError)
             ELSE LET W1 == verifyEmail(W, email)
                      W2 == deleteOtpCache(W1, email, type)
                  IN  IssueTokens(W2, The(StoreByEmail(W, email)).id,
                                  "Email verified successfully")
        ELSE Out(deleteOtpCache(W, email, type), Resp(200, "verified"))

\* resendOtp; forgotPassword is the same code with type = forgotPassword
StageOtp(W, email, type, otpCode, mailOk, notFound) ==
    LET user == findByEmail(W, email, TRUE)
    IN  IF user.u = {} THEN Out(user.w, notFound)
        ELSE IF StoreByEmail(user.w, email) = {} THEN Out(user.w, PrismaNotFoundError)
        ELSE LET W1 == updateOtp(user.w, email, otpCode, now + OTP_VALIDITY)
                 W2 == setOtpCache(W1, email, type, otpCode)
             IN  IF mailOk THEN Out(W2, Mailed(Resp(200, "OTP sent"), email, otpCode))
                 ELSE Out(W2, Mailed(Resp(400, "Failed to send email"), email, otpCode))

resendOtp(W, email, type, otpCode, mailOk) ==
    StageOtp(W, email, type, otpCode, mailOk, Resp(404, "User not found"))

forgotPassword(W, email, otpCode, mailOk) ==
    StageOtp(W, email, "forgotPassword", otpCode, mailOk, Resp(404, "User not found"))

\* resetPassword that hashes the password itself before updatePassword
resetPasswordPreHashed(W, email, password) ==
    LET user == findByEmail(W, email, FALSE).u
    IN  IF user = {} THEN Out(W, Resp(404, "User not found"))
        ELSE LET W1 == updatePassword(W, email, hashPassword(Plain(password)))
                 updatedUser == The(StoreByEmail(W1, email))
             IN  Out(deleteOtpCache(W1, email, "forgotPassword"),
                     WithUser(Resp(200, "Password reset successfully"), updatedUser))

resetPassword(W, email, password) ==
    LET user == findByEmail(W, email, FALSE).u
    IN  IF user = {} THEN Out(W, Resp(404, "User not found"))
        ELSE LET W1 == updatePassword(W, email, Plain(password))
                 updatedUser == The(StoreByEmail(W1, email))
             IN  Out(deleteOtpCache(W1, email, "forgotPassword"),
                     WithUser(Resp(200, "Password reset successfully"), updatedUser))

\* refreshToken, lines 309-330: the checks on the user findById returned
RefreshWith(W, user, refreshToken) ==
    IF user = {} THEN Out(W, Resp(401, "User not found"))
    ELSE IF The(user).refreshToken # refreshToken
    THEN Out(W, Resp(401, "Invalid refresh token"))
    ELSE IF ~The(user).isActive \/ The(user).isDeleted
    THEN Out(W, Resp(403, "Account is deactivated or deleted"))
    ELSE IssueTokens(W, The(user).id, "Token refreshed successfully")

refreshToken(W, token) ==
    IF isTokenBlacklisted(W, token) THEN Out(W, Resp(401, "Token has been revoked"))
    ELSE IF ~verifyRefreshToken(token)
    THEN Out(W, Resp(401, "Invalid or expired refresh token"))
    ELSE LET user == findById(W, token.uid)
         IN  RefreshWith(user.w, user.u, token)

\* decoded.exp - Math.floor(Date.now() / 1000)
ExpiresIn(token) == TokenExp(token) - now

logout(W, userId, token) ==
    IF ~verifyRefreshToken(token) THEN Out(W, InvalidTokenError)
    ELSE LET W1 == IF ExpiresIn(token) > 0
                   THEN blacklistToken(W, token, ExpiresIn(token)) ELSE W
         IN  IF StoreById(W1, userId) = {} THEN Out(W1, PrismaNotFoundError)
             ELSE Out(updateRefreshToken(W1, userId, NoToken),
                      Resp(200, "Logged out successfully"))

changePassword(W, userId, currentPassword, newPassword) ==
    LET byId == findById(W, userId)
        user == IF byId.u = {} THEN {}
                ELSE findByEmailWithPassword(byId.w, The(byId.u).email)
    IN  IF user = {} \/ The(user).id # userId THEN Out(byId.w, Resp(404, "User not found"))
        ELSE IF ~comparePassword(currentPassword, The(user).password)
        THEN Out(byId.w, Resp(400, "Current password is incorrect"))
        ELSE LET hashedPassword == hashPassword(Plain(newPassword))
                 W1 == updatePassword(byId.w, The(user).email, hashedPassword)
                 updatedUser == The(StoreById(W1, userId))
             IN  Out(W1, WithUser(Resp(200, "Password changed successfully"),
                                  updatedUser))

getMe(W, userId) ==
    LET user == findById(W, userId)
    IN  IF user.u = {} THEN Out(user.w, Resp(404, "User not found"))
        ELSE Out(user.w, WithUser(Resp(200, "Profile retrieved successfully"),
                                  The(user.u)))

\* guestLogin's payload with isEmailVerified left to the default of create
GuestPayloadDefault(W) ==
    [email |-> GuestEmail(Cardinality(W.users) + 1), password |-> RandomPassword,
     signupMethod |-> "EMAIL", userType |-> "GUEST", isEmailVerified |-> FALSE]

GuestPayload(W) ==
    [email |-> GuestEmail(Cardinality(W.users) + 1), password |-> RandomPassword,
     signupMethod |-> "EMAIL", userType |-> "GUEST", isEmailVerified |-> TRUE]

guestLogin(W) ==
    IF UniqueViolation(W, GuestPayload(W).email) THEN Out(W, PrismaUniqueError)
    ELSE LET W1 == RepoCreate(W, GuestPayload(W))
         IN  IssueTokens(W1, Cardinality(W.users) + 1, "Guest login successful")

\* googleAuth's payload for a new account: a random password, the flag of firebase
GooglePayload(email, emailVerified) ==
    [email |-> email, password |-> RandomPassword, signupMethod |-> "GOOGLE",
     userType |-> "REGISTERED", isEmailVerified |-> emailVerified]

\* updateProfile as googleAuth calls it: updateData = { isEmailVerified: true }
updateProfileVerified(W, userId) ==
    LET Set == [u \in W.users |-> [u EXCEPT !.isEmailVerified = TRUE]]
        W1 == UpdateWhereId(W, userId, Set)
    IN  EmailCacheDel(IdCacheDel(W1, userId), The(StoreById(W1, userId)).email)

\* googleAuth, lines 486-512: prisma.user.create and what follows it
GoogleCreate(W, email, emailVerified) ==
    IF UniqueViolation(W, email) THEN Out(W, PrismaUniqueError)
    ELSE LET W1 == RepoCreate(W, GooglePayload(email, emailVerified))
         IN  IssueTokens(W1, Cardinality(W.users) + 1, "Google authentication successful")

\* googleAuth, line 420, without the check of signupMethod
IsGoogleUserUnchecked(u) == TRUE

\* user.signupMethod !== 'GOOGLE', line 420
IsGoogleUser(u) == u.signupMethod = "GOOGLE"

\* googleAuth: firebaseUser is the verified ID token's email and emailVerified
googleAuth(W, email, emailVerified) ==
    LET found == findByEmail(W, email, TRUE)
        W0 == found.w
    IN  IF found.u # {}
        THEN LET user == The(found.u)
                 sync == emailVerified /\ ~user.isEmailVerified
                 W1 == IF sync THEN updateProfileVerified(W0, user.id) ELSE W0
                 after == IF sync THEN The(StoreById(W1, user.id)) ELSE user
             IN  IF ~IsGoogleUser(user)
                 THEN Out(W0, Resp(409, "An account with this email already exists"))
                 ELSE IF sync /\ StoreById(W0, user.id) = {}
                 THEN Out(W0, PrismaNotFoundError)
                 ELSE IF ~after.isActive \/ after.isDeleted
                 THEN Out(W1, Resp(403, "Account is deactivated or deleted"))
                 ELSE IssueTokens(W1, after.id, "Google authentication successful")
        ELSE GoogleCreate(W0, email, emailVerified)

\* the update of lines 592-598 with isEmailVerified alone in its data
MarkUnverified(W, userId) ==
    LET Set == [u \in W.users |-> [u EXCEPT !.isEmailVerified = FALSE]]
    IN  UpdateWhereId(W, userId, Set)

\* prisma.user.update({ where: { id }, data: { userType, isEmailVerified } }), lines 592-598
MarkRegistered(W, userId) ==
    LET Set == [u \in W.users |->
                   [u EXCEPT !.userType = "REGISTERED", !.isEmailVerified = FALSE]]
    IN  UpdateWhereId(W, userId, Set)

\* the unique index User_email_key rejects an update that gives a row the email
\* of another row
UniqueViolationOnUpdate(W, userId, email) ==
    UniqueViolation(W, email) /\ \E u \in StoreByEmail(W, email) : u.id # userId

\* convertGuestToRegistered, lines 583-631: updateProfile and what follows it
\* lines 613-631 with the error of sendEmail rethrown
ConvertSendMailFatal(W, r, email, otpCode, mailOk) ==
    IF mailOk THEN Out(W, Mailed(r, email, otpCode))
    ELSE Out(W, Mailed(Resp(400, "Failed to send email"), email, otpCode))

\* lines 613-631. mailOk: sendEmail resolves; when it throws, the catch logs and
\* the conversion goes on
ConvertSend(W, r, email, otpCode, mailOk) ==
    IF mailOk THEN Out(W, Mailed(r, email, otpCode))
    ELSE Out(W, Mailed(r, email, otpCode))

\* convertGuestToRegistered, lines 583-589: AuthRepository.updateProfile
ConvertProfile(W, userId, email, password) ==
    IF StoreById(W, userId) = {} THEN Out(W, PrismaNotFoundError)
    ELSE IF UniqueViolationOnUpdate(W, userId, email) THEN Out(W, PrismaUniqueError)
    ELSE Out(updateProfile(W, userId, email, password, "EMAIL"), Resp(200, ""))

\* convertGuestToRegistered, lines 591-631: the update of userType and
\* isEmailVerified, the tokens, the OTP and the mail
ConvertMark(W, userId, email, otpCode, mailOk) ==
    IF StoreById(W, userId) = {} THEN Out(W, PrismaNotFoundError)
    ELSE LET W2 == MarkRegistered(W, userId)
             T == IssueTokens(W2, userId, "Account converted")
         IN  IF StoreByEmail(T.w, email) = {} THEN Out(T.w, PrismaNotFoundError)
             ELSE LET W3 == updateOtp(T.w, email, otpCode, now + OTP_VALIDITY)
                      W4 == setOtpCache(W3, email, "emailVerification", otpCode)
                  IN  ConvertSend(W4, T.r, email, otpCode, mailOk)

ConvertUpdate(W, userId, email, password, otpCode, mailOk) ==
    LET P == ConvertProfile(W, userId, email, password)
    IN  IF ~Ok(P.r) THEN P ELSE ConvertMark(P.w, userId, email, otpCode, mailOk)

\* convertGuestToRegistered, line 568, without the check
IsGuestUnchecked(u) == TRUE

IsGuest(u) == u.userType = "GUEST"

convertGuestToRegistered(W, userId, email, password, otpCode, mailOk) ==
    LET user == findById(W, userId)
        existingUser == findByEmail(user.w, email, TRUE)
        W0 == existingUser.w
    IN  IF user.u = {} THEN Out(user.w, Resp(404, "User not found"))
        ELSE IF ~IsGuest(The(user.u))
        THEN Out(user.w, Resp(400, "User is already registered"))
        ELSE IF existingUser.u # {} /\ The(existingUser.u).id # userId
        THEN Out(W0, Resp(409, "Email already exists"))
        ELSE ConvertUpdate(W0, userId, email, password, otpCode, mailOk)

----------------------------------------------------------------------------
(* Request Gate: authenticate. Returns the world, the response (200 when   *)
(* next() is called) and the user attached to the request.                 *)

Projection(u) ==
    [id |-> u.id, email |-> u.email, role |-> u.role, userType |-> u.userType,
     isEmailVerified |-> u.isEmailVerified, isActive |-> u.isActive]

GateCacheGet(W, id) == {c.val : c \in {x \in Live(W.gateCache) : x.id = id}}
GateCacheSet(W, id, v) ==
    [W EXCEPT !.gateCache = {x \in @ : x.id # id}
              \cup {[id |-> id, val |-> v, exp |-> now + USER_MIDDLEWARE_CACHE_TTL]}]

Gate(W, r, user) == [w |-> W, r |-> r, user |-> user]

\* authenticate, lines 62-87: the checks on the user findById returned
\* the tail of authenticate that ends the session of an account it turns away
GateWithRevoking(W, token, user) ==
    IF user = {}
    THEN Gate(W, Resp(401, "User not found. Please login again."), {})
    ELSE IF ~The(user).isActive \/ The(user).isDeleted
    THEN Gate(updateRefreshToken(W, token.uid, NoToken),
              Resp(403, "Account is deactivated or deleted."), {})
    ELSE IF ~The(user).isEmailVerified /\ The(user).userType # "GUEST"
    THEN Gate(W, Resp(401, "Please verify your email before accessing this resource."), {})
    ELSE Gate(GateCacheSet(W, token.uid, Projection(The(user))),
              Resp(200, "next"), {Projection(The(user))})

GateWith(W, token, user) ==
    IF user = {}
    THEN Gate(W, Resp(401, "User not found. Please login again."), {})
    ELSE IF ~The(user).isActive \/ The(user).isDeleted
    THEN Gate(W, Resp(403, "Account is deactivated or deleted."), {})
    ELSE IF ~The(user).isEmailVerified /\ The(user).userType # "GUEST"
    THEN Gate(W, Resp(401, "Please verify your email before accessing this resource."), {})
    ELSE Gate(GateCacheSet(W, token.uid, Projection(The(user))),
              Resp(200, "next"), {Projection(The(user))})

\* the token checks of authenticate, lines 32-49
TokenRejected(W, token) ==
    token = NoToken \/ isTokenBlacklisted(W, token) \/ ~verifyToken(token)

authenticate(W, token) ==
    IF token = NoToken THEN Gate(W, Resp(401, "Authentication required. Please login."), {})
    ELSE IF isTokenBlacklisted(W, token)
    THEN Gate(W, Resp(401, "Token has been revoked. Please login again."), {})
    ELSE IF ~verifyToken(token)
    THEN Gate(W, Resp(401, "Invalid or expired token. Please login again."), {})
    ELSE LET cachedUser == GateCacheGet(W, token.uid)
             user == findById(W, token.uid)
         IN  IF cachedUser # {} THEN Gate(W, Resp(200, "next"), cachedUser)
             ELSE GateWith(user.w, token, user.u)

\* optionalAuth that looks at the verification flag only
optionalAuthIgnoringStanding(W, token) ==
    IF token = NoToken \/ isTokenBlacklisted(W, token) \/ ~verifyToken(token)
    THEN Gate(W, Resp(200, "next"), {})
    ELSE LET cachedUser == GateCacheGet(W, token.uid)
             user == findById(W, token.uid)
         IN  IF cachedUser # {} THEN Gate(W, Resp(200, "next"), cachedUser)
             ELSE IF user.u # {} /\ The(user.u).isEmailVerified
             THEN Gate(GateCacheSet(user.w, token.uid, Projection(The(user.u))),
                       Resp(200, "next"), {Projection(The(user.u))})
             ELSE Gate(user.w, Resp(200, "next"), {})

\* optionalAuth: next() is always called; a failure of a check or a thrown error
\* leaves the request without a user
optionalAuth(W, token) ==
    IF token = NoToken THEN Gate(W, Resp(200, "next"), {})
    ELSE IF isTokenBlacklisted(W, token) THEN Gate(W, Resp(200, "next"), {})
    ELSE IF ~verifyToken(token) THEN Gate(W, Resp(200, "next"), {})
    ELSE LET cachedUser == GateCacheGet(W, token.uid)
             user == findById(W, token.uid)
         IN  IF cachedUser # {} THEN Gate(W, Resp(200, "next"), cachedUser)
             ELSE IF /\ user.u # {}
                     /\ The(user.u).isActive /\ ~The(user.u).isDeleted
                     /\ The(user.u).isEmailVerified
             THEN Gate(GateCacheSet(user.w, token.uid, Projection(The(user.u))),
                       Resp(200, "next"), {Projection(The(user.u))})
             ELSE Gate(user.w, Resp(200, "next"), {})

Roles == {"USER", "ADMIN"}

\* authorize without the role check
authorizeAnyRole(W, allowedRoles, user) ==
    IF user = {} THEN Gate(W, Resp(401, "Authentication required"), {})
    ELSE Gate(W, Resp(200, "next"), user)

\* authorize(...allowedRoles), after a gate that attached user to the request or none
authorize(W, allowedRoles, user) ==
    IF user = {} THEN Gate(W, Resp(401, "Authentication required"), {})
    ELSE IF The(user).role \notin allowedRoles
    THEN Gate(W, Resp(403, "Access denied. Required roles"), user)
    ELSE Gate(W, Resp(200, "next"), user)

\* a route behind the gate: the request ends with the gate's error unless the gate
\* calls next(); the handler then runs for req.user.id
Rejected(g) == Out(g.w, g.r)

----------------------------------------------------------------------------
(* The state after construction: an empty store and an empty cache *)

NoResp == [op |-> "none", r |-> Resp(0, "")]

Slots == 1..MaxInflight
Idle == [op |-> "idle", pc |-> "idle", email |-> <<"user", 0>>, password |-> "",
         otp |-> NoCode, token |-> NoToken, local |-> {}]

Init ==
    /\ users = {}
    /\ idCache = {}
    /\ emailCache = {}
    /\ otpCache = {}
    /\ blacklist = {}
    /\ gateCache = {}
    /\ issued = {}
    /\ now = 0
    /\ last = NoResp
    /\ revoked = {}
    /\ rotated = {}
    /\ staged = {}
    /\ inflight = [s \in Slots |-> Idle]

\* the history of OTP staging: one entry per (email, type)
Stage(S, email, type, code) ==
    {x \in S : ~(x.email = email /\ x.type = type)}
        \cup {[email |-> email, type |-> type, code |-> code, exp |-> now + OTP_VALIDITY]}
Unstage(S, email, type) == {x \in S : ~(x.email = email /\ x.type = type)}

\* the world of a completed request is committed and its response recorded
Finish(op, res) ==
    /\ Cardinality(res.w.users) <= MaxUsers
    /\ Cardinality(res.w.issued) <= MaxTokens
    /\ Commit(res.w)
    /\ last' = [op |-> op, r |-> res.r]

\* one whole request, run without interleaving
Do(op, res) == Finish(op, res) /\ UNCHANGED <<now, inflight>>

Signup(E) ==
    \E email \in E, password \in Passwords, otpCode \in Codes, mailOk \in BOOLEAN :
        LET res == signup(Cur, email, password, otpCode, mailOk)
        IN  /\ Do("signup", res)
            /\ staged' = IF Ok(res.r) THEN Stage(staged, email, "emailVerification", otpCode)
                         ELSE staged
            /\ UNCHANGED <<revoked, rotated>>

Login(E) ==
    \E email \in E, password \in Passwords :
        /\ Do("login", login(Cur, email, password))
        /\ UNCHANGED <<revoked, rotated, staged>>

VerifyOtp(E) ==
    \E email \in E, otp \in Codes, type \in OtpTypes :
        LET res == verifyOtp(Cur, email, otp, type)
        IN  /\ Do("verifyOtp", res)
            /\ staged' = IF Ok(res.r) THEN Unstage(staged, email, type) ELSE staged
            /\ UNCHANGED <<revoked, rotated>>

ResendOtp(E) ==
    \E email \in E, type \in OtpTypes, otpCode \in Codes, mailOk \in BOOLEAN :
        LET res == resendOtp(Cur, email, type, otpCode, mailOk)
        IN  /\ Do("resendOtp", res)
            /\ staged' = IF res.r.mail # NoMail THEN Stage(staged, email, type, otpCode)
                         ELSE staged
            /\ UNCHANGED <<revoked, rotated>>

ForgotPassword(E) ==
    \E email \in E, otpCode \in Codes, mailOk \in BOOLEAN :
        LET res == forgotPassword(Cur, email, otpCode, mailOk)
        IN  /\ Do("forgotPassword", res)
            /\ staged' = IF res.r.mail # NoMail
                         THEN Stage(staged, email, "forgotPassword", otpCode) ELSE staged
            /\ UNCHANGED <<revoked, rotated>>

ResetPassword(E) ==
    \E email \in E, password \in Passwords :
        LET res == resetPassword(Cur, email, password)
        IN  /\ Do("resetPassword", res)
            /\ staged' = IF Ok(res.r) THEN Unstage(staged, email, "forgotPassword")
                         ELSE staged
            /\ UNCHANGED <<revoked, rotated>>

RefreshToken ==
    \E token \in RefreshTokens(Cur) :
        LET res == refreshToken(Cur, token)
        IN  /\ Do("refreshToken", res)
            /\ rotated' = IF Ok(res.r) THEN rotated \cup {token} ELSE rotated
            /\ UNCHANGED <<revoked, staged>>

Logout ==
    \E access \in AccessTokens(Cur), token \in RefreshTokens(Cur) :
        LET g == authenticate(Cur, access)
            res == IF Ok(g.r) THEN logout(g.w, The(g.user).id, token) ELSE Rejected(g)
        IN  /\ Do("logout", res)
            /\ revoked' = IF res.r.msg = "Logged out successfully"
                          THEN revoked \cup {token} ELSE revoked
            /\ UNCHANGED <<rotated, staged>>

ChangePassword ==
    \E access \in AccessTokens(Cur), currentPassword \in Passwords,
       newPassword \in Passwords :
        LET g == authenticate(Cur, access)
            res == IF Ok(g.r)
                   THEN changePassword(g.w, The(g.user).id, currentPassword, newPassword)
                   ELSE Rejected(g)
        IN  /\ Do("changePassword", res)
            /\ UNCHANGED <<revoked, rotated, staged>>

GetMe ==
    \E access \in AccessTokens(Cur) :
        LET g == authenticate(Cur, access)
            res == IF Ok(g.r) THEN getMe(g.w, The(g.user).id) ELSE Rejected(g)
        IN  /\ Do("getMe", res)
            /\ UNCHANGED <<revoked, rotated, staged>>

GuestLogin ==
    /\ Do("guestLogin", guestLogin(Cur))
    /\ UNCHANGED <<revoked, rotated, staged>>

GoogleAuth(E) ==
    \E email \in E, emailVerified \in BOOLEAN :
        /\ Do("googleAuth", googleAuth(Cur, email, emailVerified))
        /\ UNCHANGED <<revoked, rotated, staged>>

ConvertGuest(E) ==
    \E access \in AccessTokens(Cur), email \in E, password \in Passwords,
       otpCode \in Codes, mailOk \in BOOLEAN :
        LET g == authenticate(Cur, access)
            res == IF Ok(g.r)
                   THEN convertGuestToRegistered(g.w, The(g.user).id, email, password,
                                                 otpCode, mailOk)
                   ELSE Rejected(g)
        IN  /\ Do("convertGuest", res)
            /\ staged' = IF res.r.msg = "Account converted"
                         THEN Stage(staged, email, "emailVerification", otpCode)
                         ELSE staged
            /\ UNCHANGED <<revoked, rotated>>

\* a request through optionalAuth: the handler that follows sees the user or none
OptionalAuth ==
    \E token \in AccessTokens(Cur) \cup {NoToken} :
        LET g == optionalAuth(Cur, token)
            seen == IF g.user = {} THEN "anonymous" ELSE "user attached"
        IN  /\ Do("optionalAuth", Out(g.w, Resp(g.r.status, seen)))
            /\ UNCHANGED <<revoked, rotated, staged>>

\* a request through optionalAuth and authorize(...allowedRoles)
Authorize ==
    \E token \in AccessTokens(Cur) \cup {NoToken}, allowedRoles \in SUBSET Roles :
        LET g == optionalAuth(Cur, token)
            a == authorize(g.w, allowedRoles, g.user)
        IN  /\ Do("authorize", Out(a.w, a.r))
            /\ UNCHANGED <<revoked, rotated, staged>>

\* the clock advances; the cache drops the keys whose TTL has run out
Expire(C, t) == {c \in C : c.exp > t}
Tick ==
    /\ now < MaxTime
    /\ now' = now + 1
    /\ idCache' = Expire(idCache, now + 1)
    /\ emailCache' = Expire(emailCache, now + 1)
    /\ otpCache' = Expire(otpCache, now + 1)
    /\ blacklist' = Expire(blacklist, now + 1)
    /\ gateCache' = Expire(gateCache, now + 1)
    /\ last' = [op |-> "tick", r |-> Resp(0, "")]
    /\ UNCHANGED <<users, issued, revoked, rotated, staged, inflight>>

\* the account is deactivated: User.isActive is cleared in the store, outside this service
Deactivate ==
    \E id \in UserIds :
        LET Set == [u \in users |-> [u EXCEPT !.isActive = FALSE]]
        IN  /\ StoreById(Cur, id) # {}
            /\ users' = UpdateWhereId(Cur, id, Set).users
            /\ last' = [op |-> "deactivate", r |-> Resp(0, "")]
            /\ UNCHANGED <<idCache, emailCache, otpCache, blacklist, gateCache, issued,
                           now, revoked, rotated, staged, inflight>>

\* the account is made an administrator: User.role is set in the store, outside
\* this service
Promote ==
    \E id \in UserIds :
        LET Set == [u \in users |-> [u EXCEPT !.role = "ADMIN"]]
        IN  /\ StoreById(Cur, id) # {}
            /\ users' = UpdateWhereId(Cur, id, Set).users
            /\ last' = [op |-> "promote", r |-> Resp(0, "")]
            /\ UNCHANGED <<idCache, emailCache, otpCache, blacklist, gateCache, issued,
                           now, revoked, rotated, staged, inflight>>

\* prisma $extends query.$allModels.delete: a delete marks the row deleted
SoftDelete ==
    \E id \in UserIds :
        LET Set == [u \in users |-> [u EXCEPT !.isDeleted = TRUE]]
        IN  /\ StoreById(Cur, id) # {}
            /\ users' = UpdateWhereId(Cur, id, Set).users
            /\ last' = [op |-> "softDelete", r |-> Resp(0, "")]
            /\ UNCHANGED <<idCache, emailCache, otpCache, blacklist, gateCache, issued,
                           now, revoked, rotated, staged, inflight>>

Next ==
    \/ Signup(Emails) \/ Login(Emails) \/ VerifyOtp(Emails) \/ ResendOtp(Emails)
    \/ ForgotPassword(Emails) \/ ResetPassword(Emails)
    \/ RefreshToken \/ Logout \/ ChangePassword \/ GetMe \/ GuestLogin
    \/ ConvertGuest(Emails) \/ Tick \/ Deactivate \/ SoftDelete
    \/ GoogleAuth(Emails) \/ OptionalAuth \/ Authorize \/ Promote

Spec == Init /\ [][Next]_vars

----------------------------------------------------------------------------
(* Sub-specifications: the operations one family of properties is about,   *)
(* for the requests of one client address                                  *)

OneEmail == {<<"user", 1>>}

\* OTP issuance and consumption
NextOtp ==
    \/ Signup(OneEmail) \/ VerifyOtp(OneEmail) \/ ResendOtp(OneEmail)
    \/ ForgotPassword(OneEmail) \/ ResetPassword(OneEmail) \/ Tick
SpecOtp == Init /\ [][NextOtp]_vars

\* credentials: passwords and account standing
NextPassword ==
    \/ Signup(OneEmail) \/ VerifyOtp(OneEmail) \/ Login(OneEmail) \/ ChangePassword
    \/ ResetPassword(OneEmail) \/ Deactivate \/ SoftDelete
SpecPassword == Init /\ [][NextPassword]_vars

\* sessions: refresh-token rotation and revocation
NextSession == GuestLogin \/ RefreshToken \/ Logout \/ GetMe \/ Tick
SpecSession == Init /\ [][NextSession]_vars

\* the Request Gate and guest conversion
NextGate ==
    \/ GuestLogin \/ GetMe \/ ConvertGuest(OneEmail) \/ VerifyOtp(OneEmail)
    \/ Deactivate \/ Tick
SpecGate == Init /\ [][NextGate]_vars

\* the two gates side by side
NextOptional ==
    \/ GuestLogin \/ ConvertGuest(OneEmail) \/ OptionalAuth \/ GetMe
    \/ Deactivate \/ Tick
SpecOptional == Init /\ [][NextOptional]_vars

\* the gate's middlewares: authenticate, optionalAuth, authorize
NextAuthorize ==
    \/ GuestLogin \/ GetMe \/ Authorize \/ Promote \/ Deactivate
SpecAuthorize == Init /\ [][NextAuthorize]_vars

\* OTP staging next to guest accounts and their conversion
NextStage ==
    \/ GuestLogin \/ ConvertGuest(OneEmail) \/ ResendOtp(OneEmail)
    \/ ForgotPassword(OneEmail) \/ Tick
SpecStage == Init /\ [][NextStage]_vars

\* registration and guest conversion: registered and guest accounts side by side
NextConvert ==
    \/ Signup(OneEmail) \/ VerifyOtp(OneEmail) \/ Login(OneEmail) \/ GuestLogin
    \/ ConvertGuest(Emails) \/ GetMe
SpecConvert == Init /\ [][NextConvert]_vars

\* every operation that writes a password
NextStore ==
    \/ Signup(OneEmail) \/ GuestLogin \/ GoogleAuth(OneEmail) \/ ResetPassword(Emails)
    \/ ChangePassword \/ ConvertGuest(Emails)
SpecStore == Init /\ [][NextStore]_vars

\* registration end to end, as time passes
NextRegister ==
    \/ Signup(OneEmail) \/ VerifyOtp(OneEmail) \/ ResendOtp(OneEmail)
    \/ Login(OneEmail) \/ Tick
SpecRegister == Init /\ [][NextRegister]_vars

\* federated sign-in next to password accounts
NextGoogle ==
    \/ Signup(OneEmail) \/ GoogleAuth(Emails) \/ Deactivate \/ Tick
SpecGoogle == Init /\ [][NextGoogle]_vars

----------------------------------------------------------------------------
(* Concurrent requests: a request runs from one suspension point (await)   *)
(* to a later one per step; its position and locals are in inflight[s].    *)

world == <<users, idCache, emailCache, otpCache, blacklist, gateCache, issued>>

Request(op, pc, email, password, otp, token, local) ==
    [op |-> op, pc |-> pc, email |-> email, password |-> password, otp |-> otp,
     token |-> token, local |-> local]

\* signup, lines 46-51: the existence check; a request that passes it goes on to create
StartSignup(E) ==
    \E s \in Slots, email \in E, password \in Passwords, otpCode \in Codes :
        LET existingUser == findByEmail(Cur, email, TRUE)
        IN  /\ inflight[s] = Idle
            /\ IF existingUser.u # {}
               THEN /\ Finish("signup", signup(Cur, email, password, otpCode, TRUE))
                    /\ UNCHANGED inflight
               ELSE /\ inflight' = [inflight EXCEPT ![s] =
                           Request("signup", "create", email, password, otpCode, NoToken, {})]
                    /\ UNCHANGED <<world, last>>
            /\ UNCHANGED <<now, revoked, rotated, staged>>

\* signup, lines 66-84: prisma.user.create and what follows it (the outcome of
\* sendEmail changes nothing here: the catch of lines 78-81 swallows a failure)
SignupCreateStep ==
    \E s \in Slots :
        LET q == inflight[s]
            res == SignupCreate(Cur, q.email, q.password, q.otp, TRUE)
        IN  /\ q.op = "signup" /\ q.pc = "create"
            /\ Finish("signup", res)
            /\ inflight' = [inflight EXCEPT ![s] = Idle]
            /\ staged' = IF Ok(res.r)
                         THEN Stage(staged, q.email, "emailVerification", q.otp)
                         ELSE staged
            /\ UNCHANGED <<now, revoked, rotated>>

\* refreshToken, lines 290-304: the token checks, then findById up to its read
StartRefresh ==
    \E s \in Slots, token \in RefreshTokens(Cur) :
        LET cached == IdCacheGet(Cur, token.uid)
            stored == StoreById(Cur, token.uid)
            Req(pc, local) == Request("refreshToken", pc, Idle.email, "", NoCode, token, local)
        IN  /\ inflight[s] = Idle
            /\ IF isTokenBlacklisted(Cur, token) \/ ~verifyRefreshToken(token)
               THEN /\ Finish("refreshToken", refreshToken(Cur, token))
                    /\ UNCHANGED inflight
               ELSE /\ inflight' = [inflight EXCEPT ![s] =
                           IF cached # {} THEN Req("check", cached)
                           ELSE IF stored # {} THEN Req("fill", stored)
                           ELSE Req("check", {})]
                    /\ UNCHANGED <<world, last>>
            /\ UNCHANGED <<now, revoked, rotated, staged>>

\* findById, lines 156-158: the user read from the store is written to the cache
RefreshFill ==
    \E s \in Slots :
        LET q == inflight[s]
        IN  /\ q.op = "refreshToken" /\ q.pc = "fill"
            /\ Commit(IdCacheSet(Cur, q.token.uid, The(q.local)))
            /\ inflight' = [inflight EXCEPT ![s].pc = "check"]
            /\ UNCHANGED <<now, last, revoked, rotated, staged>>

\* refreshToken, lines 305-330: the checks on the user read, and the rotation
RefreshFinish ==
    \E s \in Slots :
        LET q == inflight[s]
            res == RefreshWith(Cur, q.local, q.token)
        IN  /\ q.op = "refreshToken" /\ q.pc = "check"
            /\ Finish("refreshToken", res)
            /\ inflight' = [inflight EXCEPT ![s] = Idle]
            /\ rotated' = IF Ok(res.r) THEN rotated \cup {q.token} ELSE rotated
            /\ UNCHANGED <<now, revoked, staged>>

\* GET /me: the gate's token checks, then the first findById that misses the cache
\* (the gate's, or getMe's when the gate has its projection cached) up to its read
StartGetMe ==
    \E s \in Slots, access \in AccessTokens(Cur) :
        LET Req(pc) == Request("getMe", pc, Idle.email, "", NoCode, access,
                               StoreById(Cur, access.uid))
            g == authenticate(Cur, access)
            res == IF Ok(g.r) THEN getMe(g.w, The(g.user).id) ELSE Rejected(g)
        IN  /\ inflight[s] = Idle
            /\ IF TokenRejected(Cur, access) \/ IdCacheGet(Cur, access.uid) # {}
               THEN /\ Finish("getMe", res)
                    /\ UNCHANGED inflight
               ELSE /\ inflight' = [inflight EXCEPT ![s] =
                           IF GateCacheGet(Cur, access.uid) # {} THEN Req("meFill")
                           ELSE Req("gateFill")]
                    /\ UNCHANGED <<world, last>>
            /\ UNCHANGED <<now, revoked, rotated, staged>>

\* the gate's findById writes the user it read to the cache; the gate checks that
\* user and the handler runs
GetMeGateFill ==
    \E s \in Slots :
        LET q == inflight[s]
            W1 == IF q.local = {} THEN Cur ELSE IdCacheSet(Cur, q.token.uid, The(q.local))
            g == GateWith(W1, q.token, q.local)
            res == IF Ok(g.r) THEN getMe(g.w, q.token.uid) ELSE Rejected(g)
        IN  /\ q.op = "getMe" /\ q.pc = "gateFill"
            /\ Finish("getMe", res)
            /\ inflight' = [inflight EXCEPT ![s] = Idle]
            /\ UNCHANGED <<now, revoked, rotated, staged>>

\* getMe's findById writes the user it read to the cache and getMe returns it
GetMeFill ==
    \E s \in Slots :
        LET q == inflight[s]
            res == IF q.local = {} THEN Out(Cur, Resp(404, "User not found"))
                   ELSE Out(IdCacheSet(Cur, q.token.uid, The(q.local)),
                            WithUser(Resp(200, "Profile retrieved successfully"),
                                     The(q.local)))
        IN  /\ q.op = "getMe" /\ q.pc = "meFill"
            /\ Finish("getMe", res)
            /\ inflight' = [inflight EXCEPT ![s] = Idle]
            /\ UNCHANGED <<now, revoked, rotated, staged>>

\* googleAuth, lines 403-417: the lookup; a request that finds no user goes on to create
StartGoogle(E) ==
    \E s \in Slots, email \in E, emailVerified \in BOOLEAN :
        LET found == findByEmail(Cur, email, TRUE)
        IN  /\ inflight[s] = Idle
            /\ IF found.u # {}
               THEN /\ Finish("googleAuth", googleAuth(Cur, email, emailVerified))
                    /\ UNCHANGED inflight
               ELSE /\ inflight' = [inflight EXCEPT ![s] =
                           Request("googleAuth", "create", email, "", NoCode, NoToken,
                                   {emailVerified})]
                    /\ UNCHANGED <<world, last>>
            /\ UNCHANGED <<now, revoked, rotated, staged>>

\* googleAuth, lines 486-512: prisma.user.create and what follows it
GoogleCreateStep ==
    \E s \in Slots :
        LET q == inflight[s]
        IN  /\ q.op = "googleAuth" /\ q.pc = "create"
            /\ Finish("googleAuth", GoogleCreate(Cur, q.email, The(q.local)))
            /\ inflight' = [inflight EXCEPT ![s] = Idle]
            /\ UNCHANGED <<now, revoked, rotated, staged>>

\* convertGuestToRegistered behind the gate, lines 562-581: the checks; a request
\* that passes them goes on to updateProfile
StartConvert(E) ==
    \E s \in Slots, access \in AccessTokens(Cur), email \in E,
       password \in Passwords, otpCode \in Codes :
        LET g == authenticate(Cur, access)
            user == findById(g.w, access.uid)
            existingUser == findByEmail(user.w, email, TRUE)
            passes == /\ Ok(g.r) /\ user.u # {} /\ IsGuest(The(user.u))
                      /\ ~(existingUser.u # {} /\ The(existingUser.u).id # access.uid)
            res == IF Ok(g.r)
                   THEN convertGuestToRegistered(g.w, The(g.user).id, email, password,
                                                 otpCode, TRUE)
                   ELSE Rejected(g)
        IN  /\ inflight[s] = Idle
            /\ IF passes
               THEN /\ Commit(existingUser.w)
                    /\ inflight' = [inflight EXCEPT ![s] =
                           Request("convertGuest", "update", email, password, otpCode,
                                   access, {})]
                    /\ UNCHANGED last
               ELSE /\ Finish("convertGuest", res)
                    /\ UNCHANGED inflight
            /\ UNCHANGED <<now, revoked, rotated, staged>>

\* convertGuestToRegistered, lines 583-631: updateProfile and what follows it (the
\* outcome of sendEmail changes nothing here: the catch of lines 624-627 swallows
\* a failure)
ConvertUpdateStep ==
    \E s \in Slots :
        LET q == inflight[s]
            res == ConvertUpdate(Cur, q.token.uid, q.email, q.password, q.otp, TRUE)
        IN  /\ q.op = "convertGuest" /\ q.pc = "update"
            /\ Finish("convertGuest", res)
            /\ inflight' = [inflight EXCEPT ![s] = Idle]
            /\ staged' = IF Ok(res.r)
                         THEN Stage(staged, q.email, "emailVerification", q.otp)
                         ELSE staged
            /\ UNCHANGED <<now, revoked, rotated>>

\* convertGuestToRegistered, lines 583-589: updateProfile, a step of its own
ConvertProfileStep ==
    \E s \in Slots :
        LET q == inflight[s]
            P == ConvertProfile(Cur, q.token.uid, q.email, q.password)
        IN  /\ q.op = "convertGuest" /\ q.pc = "update"
            /\ IF Ok(P.r)
               THEN /\ Commit(P.w)
                    /\ inflight' = [inflight EXCEPT ![s].pc = "mark"]
                    /\ UNCHANGED last
               ELSE /\ Finish("convertGuest", P)
                    /\ inflight' = [inflight EXCEPT ![s] = Idle]
            /\ UNCHANGED <<now, revoked, rotated, staged>>

\* convertGuestToRegistered, lines 591-631: what follows updateProfile (the
\* outcome of sendEmail changes nothing here)
ConvertMarkStep ==
    \E s \in Slots :
        LET q == inflight[s]
            res == ConvertMark(Cur, q.token.uid, q.email, q.otp, TRUE)
        IN  /\ q.op = "convertGuest" /\ q.pc = "mark"
            /\ Finish("convertGuest", res)
            /\ inflight' = [inflight EXCEPT ![s] = Idle]
            /\ staged' = IF Ok(res.r)
                         THEN Stage(staged, q.email, "emailVerification", q.otp)
                         ELSE staged
            /\ UNCHANGED <<now, revoked, rotated>>

\* guest accounts while a conversion is in progress
NextGuest ==
    \/ GuestLogin \/ StartConvert(OneEmail) \/ ConvertProfileStep \/ ConvertMarkStep
    \/ GoogleAuth(OneEmail) \/ VerifyOtp(OneEmail)
SpecGuest == Init /\ [][NextGuest]_vars

\* account creation under interleaving
NextUnique ==
    \/ GuestLogin \/ StartSignup(OneEmail) \/ SignupCreateStep
    \/ StartGoogle(OneEmail) \/ GoogleCreateStep
    \/ StartConvert(OneEmail) \/ ConvertUpdateStep
SpecUnique == Init /\ [][NextUnique]_vars

NextRace ==
    \/ GuestLogin \/ StartSignup(OneEmail) \/ SignupCreateStep
    \/ StartRefresh \/ RefreshFill \/ RefreshFinish
    \/ StartGetMe \/ GetMeGateFill \/ GetMeFill
SpecRace == Init /\ [][NextRace]_vars

----------------------------------------------------------------------------
(* Properties *)

UserOf(W, id) == The(StoreById(W, id))

\* C3: a consumed OTP cannot be reused: after verifyOtp(email, code, type) has
\* succeeded for the code staged for (email, type), a second verifyOtp with the
\* same email, code and type, with no new OTP issued in between, fails with
\* BadRequest (400), for both types.
C3_ConsumedOtpNotReusable ==
    \A email \in Emails, otp \in Codes, type \in OtpTypes :
        LET first == verifyOtp(Cur, email, otp, type)
            isStaged == \E x \in staged :
                            x.email = email /\ x.type = type /\ x.code = otp
        IN  (isStaged /\ Ok(first.r)) =>
                verifyOtp(first.w, email, otp, type).r.status = 400

\* C4: verifyOtp(email, otp, type) succeeds if and only if otp is the code staged
\* last for that exact (email, type) pair, not yet consumed or cleared, and not
\* expired; in every other case it fails with BadRequest (400). (At the very tick
\* of the expiry either outcome is allowed.)
C4_VerifyOtpIffStaged ==
    \A email \in Emails, otp \in Codes, type \in OtpTypes :
        LET r == verifyOtp(Cur, email, otp, type).r
        IN  /\ Ok(r) => \E x \in staged :
                            /\ x.email = email /\ x.type = type /\ x.code = otp
                            /\ now <= x.exp
            /\ (\E x \in staged :
                            /\ x.email = email /\ x.type = type /\ x.code = otp
                            /\ now < x.exp) => Ok(r)
            /\ ~Ok(r) => r.status = 400

\* C5: login with a wrong password returns exactly the outcome of login for an
\* email that has no user, whatever the flags of the existing user are.
C5_LoginFailsUniformly ==
    \A email \in Emails, absent \in Emails, password \in Passwords :
        \A u \in StoreByEmail(Cur, email) :
            (~comparePassword(password, u.password) /\ StoreByEmail(Cur, absent) = {})
                => login(Cur, email, password).r = login(Cur, absent, password).r

\* C6: after a successful changePassword(userId, currentPassword, newPassword) the
\* stored password verifies against newPassword: login(email, newPassword) succeeds
\* for that (active, verified) user.
C6_ChangedPasswordLogsIn ==
    \A access \in AccessTokens(Cur), currentPassword \in Passwords,
       newPassword \in Passwords :
        LET gate == authenticate(Cur, access)
            userId == The(gate.user).id
            res == changePassword(gate.w, userId, currentPassword, newPassword)
            after == UserOf(res.w, userId)
        IN  (Ok(gate.r) /\ Ok(res.r)) =>
                /\ comparePassword(newPassword, after.password)
                /\ (after.isActive /\ ~after.isDeleted /\ after.isEmailVerified)
                       => Ok(login(res.w, after.email, newPassword).r)

\* C7: after logout(userId, t) with an unexpired refresh token t has completed, t
\* stays in the revoked-token cache and every use of t (refreshToken(t), or t
\* presented at the Request Gate) fails with Unauthorized (401) at every time
\* before t's natural expiry.
C7_LoggedOutTokenRejected ==
    \A t \in revoked :
        now < TokenExp(t) =>
            /\ isTokenBlacklisted(Cur, t)
            /\ refreshToken(Cur, t).r = Resp(401, "Token has been revoked")
            /\ authenticate(Cur, t).r.status = 401

\* C7 witness: time has passed since a logout revoked an unexpired token that is
\* still the stored token of its user, and a refresh with a revoked token was
\* just rejected.
C7_Witness ==
    /\ last = [op |-> "refreshToken", r |-> Resp(401, "Token has been revoked")]
    /\ \E t \in revoked :
           /\ t.iat < now /\ now < TokenExp(t)
           /\ UserOf(Cur, t.uid).refreshToken = t

\* C8: every logout(userId, refreshToken) clears the persisted refreshToken of
\* user userId; when the presented token is expired or does not verify the field
\* is still cleared and nothing is added to the revoked-token cache.
C8_LogoutAlwaysClears ==
    \A access \in AccessTokens(Cur), token \in RefreshTokens(Cur) :
        LET gate == authenticate(Cur, access)
            userId == The(gate.user).id
            res == logout(gate.w, userId, token)
        IN  Ok(gate.r) =>
                /\ UserOf(res.w, userId).refreshToken = NoToken
                /\ ~verifyRefreshToken(token) => res.w.blacklist = blacklist

\* C9: the Request Gate accepts a request only if, at that time, the token's user
\* exists in the store, is active, is not deleted, and is email-verified or a GUEST.
C9_GateAcceptsOnlyInGoodStanding ==
    \A access \in AccessTokens(Cur) :
        Ok(authenticate(Cur, access).r) =>
            \E u \in users :
                /\ u.id = access.uid
                /\ u.isActive /\ ~u.isDeleted
                /\ (u.isEmailVerified \/ u.userType = "GUEST")

\* C1: once a signup for an email has succeeded, every other signup for it fails
\* with Conflict (409) and creates no second user, for sequential calls and for
\* every interleaving of two concurrent signups: no signup ends otherwise than
\* created (201) or Conflict (409).
C1_SecondSignupConflicts ==
    /\ \A u1, u2 \in users : u1.email = u2.email => u1 = u2
    /\ \A email \in Emails, password \in Passwords, otpCode \in Codes :
           StoreByEmail(Cur, email) # {} =>
               /\ signup(Cur, email, password, otpCode, TRUE).r.status = 409
               /\ signup(Cur, email, password, otpCode, TRUE).w.users = users
    /\ last.op = "signup" => last.r.status \in {201, 409}

\* C2: after refreshToken(tokenA) has succeeded, every later refreshToken(tokenA)
\* fails with Unauthorized (401), after any interleaving of other requests of
\* that user that read or re-populate the user-record cache.
C2_RotatedTokenRejected ==
    \A t \in rotated : refreshToken(Cur, t).r.status = 401

\* C10: each user has at most one refresh token that refreshToken() accepts: the
\* value persisted in the user's refreshToken field.
C10_OnlyStoredTokenAccepted ==
    \A t \in RefreshTokens(Cur) :
        Ok(refreshToken(Cur, t).r) =>
            \E u \in users : u.id = t.uid /\ u.refreshToken = t

\* C11: the user-record cache is only an optimization: in every reachable state,
\* also under interleaved requests, a user lookup by id returns what the store
\* holds, and refreshToken has the outcome it would have with the user read from
\* the store directly.
C11_CacheIsOnlyOptimization ==
    /\ \A id \in UserIds : findById(Cur, id).u = StoreById(Cur, id)
    /\ \A t \in RefreshTokens(Cur) :
           (~isTokenBlacklisted(Cur, t) /\ verifyRefreshToken(t)) =>
               refreshToken(Cur, t).r.status
                   = RefreshWith(Cur, StoreById(Cur, t.uid), t).r.status

\* C12: convertGuestToRegistered for a user whose userType is not GUEST fails with
\* BadRequest (400) and changes nothing: the user records (the stored refreshToken
\* among them) and the OTP cache are unchanged, no mail is sent and no token issued.
C12_ConvertNonGuestChangesNothing ==
    \A access \in AccessTokens(Cur), email \in Emails, password \in Passwords,
       otpCode \in Codes :
        LET g == authenticate(Cur, access)
            userId == The(g.user).id
            res == convertGuestToRegistered(g.w, userId, email, password, otpCode, TRUE)
        IN  (Ok(g.r) /\ \E u \in users : u.id = userId /\ u.userType # "GUEST") =>
                /\ res.r.status = 400
                /\ res.r.mail = NoMail /\ res.r.tok = NoToken
                /\ res.w.users = users
                /\ res.w.otpCache = otpCache
                /\ res.w.issued = issued /\ res.w.blacklist = blacklist

\* C12 witness: a convert-guest request of a REGISTERED user was just refused
C12_Witness ==
    /\ last.op = "convertGuest" /\ last.r.status = 400
    /\ last.r.msg = "User is already registered"
    /\ \E u \in users : u.userType = "REGISTERED" /\ u.isEmailVerified

\* C13: guestLogin always succeeds without any OTP step: it creates a user with
\* userType GUEST and isEmailVerified true, stages no OTP and sends no mail,
\* returns a token pair, persists the returned refreshToken on the new user, and
\* the returned access token is accepted by the Request Gate immediately.
C13_GuestLoginUsable ==
    LET res == guestLogin(Cur)
        created == res.w.users \ users
        access == [res.r.tok EXCEPT !.kind = "access"]
    IN  /\ Ok(res.r) /\ res.r.tok # NoToken /\ res.r.mail = NoMail
        /\ res.w.users = users \cup created /\ Cardinality(created) = 1
        /\ \A u \in created :
               /\ u.userType = "GUEST" /\ u.isEmailVerified
               /\ u.otpCode = NoCode /\ u.otpExpiresAt = NoTime
               /\ u.refreshToken = res.r.tok
               /\ authenticate(res.w, access).r.status = 200
               /\ The(authenticate(res.w, access).user).id = u.id
        /\ res.w.otpCache = otpCache

\* C13 witness: a guest login has just succeeded next to a registered account, and
\* the guest holds the token returned
C13_Witness ==
    /\ last.op = "guestLogin" /\ Ok(last.r)
    /\ \E u \in users : u.userType = "GUEST" /\ u.refreshToken = last.r.tok
    /\ \E u \in users : u.userType = "REGISTERED"

\* C14: end-to-end registration: after signup(email, password) succeeds the user
\* is unverified and login(email, password) fails with Unauthorized (401); after
\* verifyOtp(email, the staged code, emailVerification) succeeds the user is
\* verified and a token pair is returned; from then on login with the signup
\* password (the password the store holds) succeeds.
C14_RegistrationEndToEnd ==
    /\ \A email \in Emails, password \in Passwords, otpCode \in Codes :
           LET s == signup(Cur, email, password, otpCode, TRUE)
               l == login(s.w, email, password)
               v == verifyOtp(s.w, email, otpCode, "emailVerification")
           IN  Ok(s.r) =>
                   /\ s.r.tok = NoToken
                   /\ \A u \in StoreByEmail(s.w, email) : ~u.isEmailVerified
                   /\ l.r.status = 401 /\ l.w = s.w
                   /\ Ok(v.r) /\ v.r.tok # NoToken
                   /\ \A u \in StoreByEmail(v.w, email) :
                          u.isEmailVerified /\ u.refreshToken = v.r.tok
                   /\ Ok(login(v.w, email, password).r)
    \* at any later time: the unverified user cannot log in, the staged code verifies
    \* while it is valid, the verified user logs in with the stored password
    /\ \A u \in users, password \in Passwords :
           comparePassword(password, u.password) =>
               /\ ~u.isEmailVerified => login(Cur, u.email, password).r.status = 401
               /\ u.isEmailVerified =>
                      /\ Ok(login(Cur, u.email, password).r)
                      /\ login(Cur, u.email, password).r.tok # NoToken
    /\ \A x \in staged :
           (x.type = "emailVerification" /\ now < x.exp) =>
               LET v == verifyOtp(Cur, x.email, x.code, "emailVerification")
               IN  /\ Ok(v.r) /\ v.r.tok # NoToken
                   /\ \A u \in StoreByEmail(v.w, x.email) : u.isEmailVerified

\* C14 witness: time has passed since the signup; the code was verified and the
\* user has just logged in with the password
C14_Witness ==
    /\ last.op = "login" /\ Ok(last.r) /\ now > 0
    /\ \E u \in users : u.isEmailVerified /\ u.refreshToken = last.r.tok
    /\ \A x \in staged : x.type # "emailVerification"

C17_OptionalAuthMatchesGate ==
    \A token \in AccessTokens(Cur) \cup RefreshTokens(Cur) \cup {NoToken} :
        LET o == optionalAuth(Cur, token)
            g == authenticate(Cur, token)
        IN  /\ o.r = Resp(200, "next")
            /\ o.w.users = users
            /\ (o.user # {}) <=> Ok(g.r)
            /\ Ok(g.r) => (o.user = g.user /\ o.w = g.w)

\* C17 witness: optionalAuth has just let a request pass without a user although
\* its token verifies, its user being deactivated or unverified
C17_Witness ==
    /\ last = [op |-> "optionalAuth", r |-> Resp(200, "anonymous")]
    /\ \E t \in AccessTokens(Cur) :
           /\ verifyToken(t) /\ ~isTokenBlacklisted(Cur, t)
           /\ \E u \in users : u.id = t.uid /\ (~u.isActive \/ ~u.isEmailVerified)
    /\ \E t \in AccessTokens(Cur) : optionalAuth(Cur, t).user # {}

\* C18: in every reachable state the password stored for every user is a one-way
\* hash (hashed at least once), never the plaintext a client supplied: after
\* signup, guestLogin, googleAuth, resetPassword, changePassword and
\* convertGuestToRegistered.
C18_StoredPasswordIsHash ==
    \A u \in users :
        /\ u.password.rounds >= 1
        /\ \A p \in Passwords \cup {RandomPassword} : u.password # Plain(p)

\* C18 witness: an account created by googleAuth, and an account whose password
\* a client has just set again
C18_Witness ==
    /\ \E u \in users : u.signupMethod = "GOOGLE"
    /\ \E u \in users : u.password.plain \in Passwords /\ u.userType = "REGISTERED"
    /\ last.op \in {"resetPassword", "changePassword"} /\ Ok(last.r)

\* C19: in every reachable state no two user records share an email, under any
\* interleaving of signup, googleAuth, guestLogin and convertGuestToRegistered
\* requests.
C19_EmailsUnique ==
    \A u, v \in users : u.email = v.email => u = v

\* C19 witness: a request that passed its existence check while the email was
\* free has just been refused by the index, another request having taken the
\* email in between
C19_Witness ==
    /\ last.r = PrismaUniqueError
    /\ last.op \in {"signup", "googleAuth", "convertGuest"}
    /\ \E u \in users : u.email \in Emails

SensitiveFields == {"password", "otpCode", "otpExpiresAt", "refreshToken"}
GateFields ==
    {"id", "username", "email", "role", "userType", "isEmailVerified", "isActive"}
Sanitized(r) == DOMAIN r.user \cap SensitiveFields = {}

\* C20: no response of an operation carries the password hash, otpCode,
\* otpExpiresAt or the persisted refreshToken in its user object (the issued pair
\* is in the separate token field), and the projection the Request Gate caches and
\* attaches has only id, username, email, role, userType, isEmailVerified, isActive.
C20_ResponsesSanitized ==
    /\ Sanitized(last.r)
    /\ \A email \in Emails, password \in Passwords, otpCode \in Codes :
           /\ Sanitized(signup(Cur, email, password, otpCode, TRUE).r)
           /\ Sanitized(login(Cur, email, password).r)
           /\ Sanitized(verifyOtp(Cur, email, otpCode, "emailVerification").r)
           /\ Sanitized(resetPassword(Cur, email, password).r)
           /\ \A id \in UserIds :
                  Sanitized(convertGuestToRegistered(Cur, id, email, password, otpCode,
                                                     TRUE).r)
    /\ \A id \in UserIds : Sanitized(getMe(Cur, id).r)
    /\ \A t \in RefreshTokens(Cur) : Sanitized(refreshToken(Cur, t).r)
    /\ \A c \in gateCache : DOMAIN c.val \subseteq GateFields
    /\ \A t \in AccessTokens(Cur) :
           \A u \in authenticate(Cur, t).user : DOMAIN u \subseteq GateFields

\* C20 witness: a request has just returned the user object of a user whose row
\* holds a password hash, a staged OTP and a refresh token, and the gate holds a
\* projection
C20_Witness ==
    /\ Ok(last.r) /\ last.r.user # NoUser /\ last.r.tok # NoToken
    /\ \E u \in users :
           /\ u.id = last.r.user["id"]
           /\ u.otpCode # NoCode /\ u.refreshToken # NoToken /\ u.password.rounds >= 1
    /\ gateCache # {}

\* C21: the Request Gate never mutates a user record: authenticate, optionalAuth
\* and authorize leave every row of the store as it is, for every request,
\* accepted or rejected.
C21_GateLeavesStoreUnchanged ==
    \A token \in AccessTokens(Cur) \cup RefreshTokens(Cur) \cup {NoToken} :
        LET g == authenticate(Cur, token)
            o == optionalAuth(Cur, token)
        IN  /\ g.w.users = users
            /\ o.w.users = users
            /\ \A allowedRoles \in SUBSET Roles :
                   /\ authorize(g.w, allowedRoles, g.user).w.users = users
                   /\ authorize(o.w, allowedRoles, o.user).w.users = users

\* C21 witness: authenticate has just turned away the request of a deactivated
\* account whose row holds a refresh token
C21_Witness ==
    /\ last.op = "getMe" /\ last.r.status = 403
    /\ \E u \in users : ~u.isActive /\ u.refreshToken # NoToken
    /\ \E t \in AccessTokens(Cur) : Ok(authenticate(Cur, t).r)

\* C22: authorize(...roles) lets a request pass only when a user is attached and
\* the attached user's role is in the allowed set; it fails with 403 when the
\* attached user's role is not in the set and with 401 when no user is attached.
C22_AuthorizeByRole ==
    \A token \in AccessTokens(Cur) \cup {NoToken}, allowedRoles \in SUBSET Roles :
        LET o == optionalAuth(Cur, token)
            a == authorize(o.w, allowedRoles, o.user)
        IN  /\ Ok(a.r) <=> (o.user # {} /\ The(o.user).role \in allowedRoles)
            /\ (o.user # {} /\ The(o.user).role \notin allowedRoles) => a.r.status = 403
            /\ o.user = {} => a.r.status = 401
            /\ a.r.status \in {200, 401, 403}

\* C22 witness: authorize has just refused an attached user for its role, while
\* an administrator and a plain user are both attached by the gate
C22_Witness ==
    /\ last.op = "authorize" /\ last.r.status = 403
    /\ \E t \in AccessTokens(Cur) :
           \E u \in optionalAuth(Cur, t).user : u.role = "ADMIN"
    /\ \E t \in AccessTokens(Cur) :
           \E u \in optionalAuth(Cur, t).user : u.role = "USER"

\* C23: a successful verifyOtp(email, otp, emailVerification) sets isEmailVerified,
\* clears otpCode and otpExpiresAt on the user, deletes the (email,
\* emailVerification) cache entry, returns a token pair and persists the returned
\* refreshToken on the user.
C23_VerifyEmailEffects ==
    \A email \in Emails, otp \in Codes :
        LET res == verifyOtp(Cur, email, otp, "emailVerification")
            after == StoreByEmail(res.w, email)
        IN  Ok(res.r) =>
                /\ after # {}
                /\ The(after).isEmailVerified
                /\ The(after).otpCode = NoCode /\ The(after).otpExpiresAt = NoTime
                /\ \A c \in res.w.otpCache :
                       ~(c.email = email /\ c.type = "emailVerification")
                /\ res.r.tok # NoToken /\ res.r.tok \in RefreshTokens(res.w)
                /\ res.r.tok \notin RefreshTokens(Cur)
                /\ The(after).refreshToken = res.r.tok

\* C23 witness: verifyOtp for emailVerification has just succeeded on an account
\* that was unverified, and left it verified with the returned token stored
C23_Witness ==
    /\ last.op = "verifyOtp" /\ Ok(last.r) /\ last.r.tok # NoToken
    /\ \E u \in users :
           u.isEmailVerified /\ u.refreshToken = last.r.tok /\ u.otpCode = NoCode

\* C24: a successful verifyOtp(email, otp, forgotPassword) deletes only the
\* (email, forgotPassword) cache entry: it issues no tokens and leaves the user
\* record and the (email, emailVerification) cache entry unchanged.
C24_VerifyForgotDeletesOnlyCacheEntry ==
    \A email \in Emails, otp \in Codes :
        LET res == verifyOtp(Cur, email, otp, "forgotPassword")
        IN  Ok(res.r) =>
                /\ res.w = deleteOtpCache(Cur, email, "forgotPassword")
                /\ res.w.users = users /\ res.w.issued = issued
                /\ res.r.tok = NoToken
                /\ {c \in res.w.otpCache : c.type = "emailVerification"}
                       = {c \in otpCache : c.type = "emailVerification"}

\* C24 witness: verifyOtp for forgotPassword has just succeeded and deleted the
\* entry of a code staged in this tick (the row still holds that code), while the
\* cache holds the entry of emailVerification with another code
C24_Witness ==
    /\ last.op = "verifyOtp" /\ Ok(last.r) /\ last.r.tok = NoToken
    /\ \E u \in users :
           /\ u.otpCode # NoCode /\ u.otpExpiresAt = now + OTP_VALIDITY
           /\ \E c \in Live(otpCache) :
                  c.email = u.email /\ c.type = "emailVerification" /\ c.code # u.otpCode
    /\ ~\E c \in otpCache : c.type = "forgotPassword"

\* C25: verifyOtp consults the OTP of the row only when the cache holds no entry
\* for (email, type): when a cache entry exists and differs from the supplied
\* code, the verification fails whatever the row holds.
C25_CacheEntryDecides ==
    \A email \in Emails, otp \in Codes, type \in OtpTypes :
        LET cachedOtp == getOtpCache(Cur, email, type)
        IN  (cachedOtp # {} /\ The(cachedOtp) # otp)
                => verifyOtp(Cur, email, otp, type).r.status = 400

\* the two errors of verifyOtp, as the check of the row decides them
RowExpired(W, email, otp) ==
    \E u \in StoreByEmail(W, email) :
        /\ u.otpCode # NoCode /\ u.otpCode = otp
        /\ (u.otpExpiresAt = NoTime \/ u.otpExpiresAt < now)
RowInvalid(W, email, otp) ==
    \/ StoreByEmail(W, email) = {}
    \/ \E u \in StoreByEmail(W, email) : u.otpCode = NoCode \/ u.otpCode # otp

\* C26: a failing verifyOtp changes no state and reports one of two 400 errors:
\* 'OTP code has expired' exactly when the cache check fails, the supplied code
\* equals the stored otpCode and otpExpiresAt is missing or in the past;
\* 'Invalid or expired OTP code' when the cache check fails and the user is
\* absent, has no stored otpCode, or the stored otpCode differs.
C26_VerifyOtpFailures ==
    \A email \in Emails, otp \in Codes, type \in OtpTypes :
        LET res == verifyOtp(Cur, email, otp, type)
            cachedOtp == getOtpCache(Cur, email, type)
            cacheFails == cachedOtp = {} \/ The(cachedOtp) # otp
        IN  /\ ~Ok(res.r) =>
                   /\ res.w = Cur
                   /\ res.r \in {Resp(400, "OTP code has expired"),
                                 Resp(400, "Invalid or expired OTP code")}
            /\ res.r = Resp(400, "OTP code has expired")
                   <=> (cacheFails /\ RowExpired(Cur, email, otp))
            /\ res.r = Resp(400, "Invalid or expired OTP code")
                   <=> (cacheFails /\ RowInvalid(Cur, email, otp))

\* C26 witness: verifyOtp has just reported an expired code: the row still holds
\* the code, past its otpExpiresAt, and the cache entry is gone
C26_Witness ==
    /\ last = [op |-> "verifyOtp", r |-> Resp(400, "OTP code has expired")]
    /\ \E u \in users : u.otpCode # NoCode /\ u.otpExpiresAt < now
    /\ Live(otpCache) = {}

\* C27: a successful signup creates exactly one user with isEmailVerified false,
\* stages the same OTP on the row (otpCode, otpExpiresAt = now + 10 min) and in
\* the (email, emailVerification) cache entry, issues no tokens and persists no
\* refreshToken; when sending the verification email fails, signup still
\* succeeds with the same state.
C27_SignupEffects ==
    \A email \in Emails, password \in Passwords, otpCode \in Codes :
        LET res == signup(Cur, email, password, otpCode, TRUE)
            failed == signup(Cur, email, password, otpCode, FALSE)
            created == res.w.users \ users
        IN  /\ StoreByEmail(Cur, email) = {} => Ok(res.r)
            /\ Ok(res.r) =>
                   /\ Cardinality(created) = 1 /\ users \subseteq res.w.users
                   /\ \A u \in created :
                          /\ u.email = email /\ ~u.isEmailVerified
                          /\ u.otpCode = otpCode /\ otpCode \in Codes
                          /\ u.otpExpiresAt = now + OTP_VALIDITY
                          /\ u.refreshToken = NoToken
                   /\ getOtpCache(res.w, email, "emailVerification") = {otpCode}
                   /\ res.w.issued = issued /\ res.r.tok = NoToken
            /\ failed.w = res.w /\ failed.r.status = res.r.status

\* C27 witness: signup has just succeeded: the account is unverified, the row and
\* the cache entry hold the code that was mailed, and no token exists
C27_Witness ==
    /\ last.op = "signup" /\ last.r.status = 201 /\ last.r.tok = NoToken
    /\ \E u \in users :
           /\ u.email = last.r.mail.to /\ ~u.isEmailVerified
           /\ u.otpCode = last.r.mail.code /\ u.otpExpiresAt = now + OTP_VALIDITY
           /\ getOtpCache(Cur, u.email, "emailVerification") = {u.otpCode}
    /\ issued = {}

\* the emails a client knows: the addresses it owns and the guest addresses that
\* guestLogin returned to it
KnownEmails == Emails \cup {GuestEmail(id) : id \in UserIds}

\* C28: resendOtp and forgotPassword fail with NotFound (404) and change no state
\* when no user has the given email; for an existing user they stage the fresh OTP
\* on the row and in the cache entry of the requested type (forgotPassword always
\* uses type forgotPassword), and a failure to send the email makes the
\* operation fail with BadRequest (400) instead of succeeding.
C28_StageOtpOutcomes ==
    \A email \in KnownEmails, type \in OtpTypes, otpCode \in Codes, mailOk \in BOOLEAN :
        LET res == resendOtp(Cur, email, type, otpCode, mailOk)
            fp == forgotPassword(Cur, email, otpCode, mailOk)
            Staged(W, t) ==
                /\ \A u \in StoreByEmail(W, email) :
                       u.otpCode = otpCode /\ u.otpExpiresAt = now + OTP_VALIDITY
                /\ getOtpCache(W, email, t) = {otpCode}
        IN  IF StoreByEmail(Cur, email) = {}
            THEN /\ res.r.status = 404 /\ res.w = Cur
                 /\ fp.r.status = 404 /\ fp.w = Cur
            ELSE /\ Staged(res.w, type) /\ Staged(fp.w, "forgotPassword")
                 /\ res.r.status = IF mailOk THEN 200 ELSE 400
                 /\ fp.r.status = IF mailOk THEN 200 ELSE 400

\* no OTP is left for the email: the row's fields are null and the cache holds no
\* (email, forgotPassword) entry
OtpCleared(email) ==
    /\ \E u \in users : u.email = email
    /\ \A u \in users : u.email = email => (u.otpCode = NoCode /\ u.otpExpiresAt = NoTime)
    /\ \A c \in otpCache : ~(c.email = email /\ c.type = "forgotPassword")

C29_AfterReset ==
    /\ \A email \in Emails, password \in Passwords :
           LET res == resetPassword(Cur, email, password)
           IN  Ok(res.r) =>
                   /\ \A u \in StoreByEmail(res.w, email) :
                          u.otpCode = NoCode /\ u.otpExpiresAt = NoTime
                   /\ \A c \in res.w.otpCache :
                          ~(c.email = email /\ c.type = "forgotPassword")
                   /\ \A code \in Codes :
                          verifyOtp(res.w, email, code, "forgotPassword").r.status = 400
    /\ \A email \in Emails :
           OtpCleared(email) =>
               \A code \in Codes :
                   verifyOtp(Cur, email, code, "forgotPassword").r.status = 400

\* a step that hands no OTP for the email to sendEmail leaves OtpCleared as it is
C29_UntilIssued ==
    \A email \in Emails :
        (OtpCleared(email) /\ last'.r.mail.to # email) => OtpCleared(email)'

\* C29: after a successful resetPassword(email, newPassword) the user's otpCode
\* and otpExpiresAt are null and the (email, forgotPassword) cache entry is
\* absent, so every verifyOtp(email, code, forgotPassword) fails for every code,
\* until a new OTP is issued for that email.
C29_ResetClearsOtp == []C29_AfterReset /\ [][C29_UntilIssued]_vars

\* C29 witness: resetPassword has just succeeded and cleared the OTP of the row,
\* while the entry of emailVerification staged by signup is still in the cache
C29_Witness ==
    /\ last.op = "resetPassword" /\ Ok(last.r)
    /\ \E u \in users :
           /\ u.email \in Emails /\ OtpCleared(u.email)
           /\ \E c \in Live(otpCache) : c.email = u.email /\ c.type = "emailVerification"
           /\ \A code \in Codes :
                  verifyOtp(Cur, u.email, code, "forgotPassword").r.status = 400

\* the outcome the checks of refreshToken give on the row of the store, in order
RefreshStatus(W, t) ==
    LET row == StoreById(W, t.uid)
    IN  IF isTokenBlacklisted(W, t) THEN 401
        ELSE IF ~verifyRefreshToken(t) THEN 401
        ELSE IF row = {} THEN 401
        ELSE IF The(row).refreshToken # t THEN 401
        ELSE IF ~The(row).isActive \/ The(row).isDeleted THEN 403
        ELSE 200

\* C30: refreshToken(t) applies its checks in the order blacklist, verification,
\* user lookup, equality with the stored refreshToken, active/not-deleted: 401
\* when t is blacklisted (even if valid and stored), when t does not verify, when
\* the user is absent or the stored token differs; 403 when the user is inactive
\* or deleted; a failing call leaves the stored refreshToken unchanged and
\* issues no tokens.
C30_RefreshChecksInOrder ==
    \A t \in RefreshTokens(Cur) :
        LET res == refreshToken(Cur, t)
        IN  /\ res.r.status = RefreshStatus(Cur, t)
            /\ ~Ok(res.r) =>
                   /\ res.w.users = users /\ res.w.issued = issued
                   /\ res.r.tok = NoToken

\* C31: googleAuth for a verified identity whose email belongs to an existing
\* user with signupMethod other than GOOGLE fails with Conflict (409), issues
\* no tokens and leaves that user's record unchanged.
C31_GoogleConflict ==
    \A email \in Emails, emailVerified \in BOOLEAN :
        \A u \in StoreByEmail(Cur, email) :
            u.signupMethod # "GOOGLE" =>
                LET res == googleAuth(Cur, email, emailVerified)
                IN  /\ res.r.status = 409
                    /\ res.r.tok = NoToken
                    /\ res.w.users = users
                    /\ res.w.issued = issued

\* C31 witness: googleAuth has just been refused for the email of an unverified
\* password account, which is still unverified and without a refresh token
C31_Witness ==
    /\ last.op = "googleAuth" /\ last.r.status = 409
    /\ \E u \in users :
           /\ u.email \in Emails /\ u.signupMethod = "EMAIL"
           /\ ~u.isEmailVerified /\ u.refreshToken = NoToken

\* C32: googleAuth for a verified identity with no existing user creates exactly
\* one user with signupMethod GOOGLE, userType REGISTERED and isEmailVerified
\* equal to the federated emailVerified claim, returns a token pair and persists
\* the returned refreshToken; for an existing GOOGLE user it issues tokens only
\* when the user is active and not deleted, and never sets isEmailVerified from
\* true to false.
C32_GoogleAuthOutcomes ==
    \A email \in Emails, emailVerified \in BOOLEAN :
        LET res == googleAuth(Cur, email, emailVerified)
            row == StoreByEmail(Cur, email)
        IN  /\ row = {} =>
                   /\ Ok(res.r) /\ res.r.tok # NoToken
                   /\ users \subseteq res.w.users
                   /\ Cardinality(res.w.users \ users) = 1
                   /\ \A u \in res.w.users \ users :
                          /\ u.email = email /\ u.signupMethod = "GOOGLE"
                          /\ u.userType = "REGISTERED"
                          /\ u.isEmailVerified = emailVerified
                          /\ u.refreshToken = res.r.tok
            /\ \A u \in row :
                   u.signupMethod = "GOOGLE" =>
                       /\ Ok(res.r) => u.isActive /\ ~u.isDeleted
                       /\ \A v \in StoreById(res.w, u.id) :
                              u.isEmailVerified => v.isEmailVerified

\* C33: a successful convertGuestToRegistered(userId, email, password) leaves the
\* user with the new email, userType REGISTERED, signupMethod EMAIL and
\* isEmailVerified false, persists the returned refreshToken, and stages one
\* emailVerification OTP for the new email on the user record and in the cache;
\* a failure to send the email does not fail the conversion. It fails with
\* Conflict (409) and changes nothing when the target email belongs to a
\* different user.
C33_ConvertGuestEffects ==
    \A access \in AccessTokens(Cur), email \in Emails, password \in Passwords,
       otpCode \in Codes, mailOk \in BOOLEAN :
        LET g == authenticate(Cur, access)
            userId == The(g.user).id
            res == convertGuestToRegistered(g.w, userId, email, password, otpCode,
                                            mailOk)
            sent == convertGuestToRegistered(g.w, userId, email, password, otpCode,
                                             TRUE)
        IN  Ok(g.r) =>
                /\ Ok(res.r) =>
                       /\ res.r.tok # NoToken
                       /\ \E u \in StoreById(res.w, userId) :
                              /\ u.email = email /\ u.userType = "REGISTERED"
                              /\ u.signupMethod = "EMAIL" /\ ~u.isEmailVerified
                              /\ u.refreshToken = res.r.tok
                              /\ u.otpCode = otpCode
                              /\ u.otpExpiresAt = now + OTP_VALIDITY
                       /\ getOtpCache(res.w, email, "emailVerification") = {otpCode}
                       /\ res.r.mail = [to |-> email, code |-> otpCode]
                /\ res.r.status = sent.r.status /\ res.w = sent.w
                /\ (\E u \in users :
                        /\ u.id = userId /\ u.userType = "GUEST"
                        /\ \E v \in users : v.email = email /\ v.id # userId) =>
                       /\ res.r.status = 409
                       /\ res.r.tok = NoToken /\ res.r.mail = NoMail
                       /\ res.w.users = users /\ res.w.otpCache = otpCache
                       /\ res.w.issued = issued

\* C33 witness: a guest has just been converted next to a password account: the
\* row holds the new email, the returned refreshToken and the staged OTP, which
\* is also the live cache entry of emailVerification
C33_Witness ==
    /\ last.op = "convertGuest" /\ Ok(last.r) /\ last.r.tok # NoToken
    /\ \E u \in users :
           /\ u.email = last.r.mail.to /\ u.email \in Emails
           /\ u.userType = "REGISTERED" /\ u.signupMethod = "EMAIL"
           /\ ~u.isEmailVerified /\ u.refreshToken = last.r.tok
           /\ u.otpCode = last.r.mail.code
           /\ getOtpCache(Cur, u.email, "emailVerification") = {u.otpCode}
           /\ \E v \in users : v.id # u.id /\ v.email \in Emails

\* C34: of two concurrent refreshToken requests that present the same currently
\* valid refresh token, at most one succeeds: a request in flight whose token
\* another request has already rotated does not pass its checks, so a single
\* refresh token never yields two newly issued token pairs.
C34_OneRefreshPerToken ==
    \A s \in Slots :
        LET q == inflight[s]
        IN  (q.op = "refreshToken" /\ q.pc = "check" /\ q.token \in rotated) =>
                ~Ok(RefreshWith(Cur, q.local, q.token).r)

\* the code was staged for (email, type) and for no other purpose of that email
StagedOnlyFor(email, type, otp) ==
    /\ \E x \in staged : x.email = email /\ x.type = type /\ x.code = otp
    /\ \A x \in staged : (x.email = email /\ x.code = otp) => x.type = type

\* C35: OTP purposes are isolated: a code staged only for forgotPassword is never
\* accepted by verifyOtp with type emailVerification, and a code staged only for
\* emailVerification is never accepted with type forgotPassword; a
\* password-reset code cannot mark an email verified and obtain a token pair.
C35_OtpPurposesIsolated ==
    \A email \in Emails, otp \in Codes :
        /\ StagedOnlyFor(email, "forgotPassword", otp) =>
               LET res == verifyOtp(Cur, email, otp, "emailVerification")
               IN  /\ ~Ok(res.r) /\ res.r.tok = NoToken
                   /\ \A u \in StoreByEmail(Cur, email) :
                          \A v \in StoreByEmail(res.w, email) :
                              v.isEmailVerified = u.isEmailVerified
        /\ StagedOnlyFor(email, "emailVerification", otp) =>
               ~Ok(verifyOtp(Cur, email, otp, "forgotPassword").r)

\* the codes verifyOtp accepts for (email, type) in the world W
Acceptable(W, email, type) ==
    {otp \in Codes : Ok(verifyOtp(W, email, otp, type).r)}

\* C36: in every reachable state, for each (email, type) at most one code value
\* is accepted by verifyOtp: issuing a new OTP for an email (for any type) makes
\* every previously issued code for that email unacceptable, and the cache entry
\* and the user's otpCode never hold two different acceptable codes.
C36_OneAcceptableCode ==
    \A email \in Emails, type \in OtpTypes :
        Cardinality(Acceptable(Cur, email, type)) <= 1

\* the response carries no token pair and the world no new token and no newly
\* persisted refreshToken for the user
NothingIssued(res, u) ==
    /\ ~Ok(res.r) /\ res.r.tok = NoToken
    /\ res.w.issued = issued
    /\ \A v \in StoreById(res.w, u.id) : v.refreshToken = u.refreshToken

\* C37: no operation issues a token pair or persists a refreshToken for a user
\* whose isActive is false or whose isDeleted is true: login,
\* verifyOtp(emailVerification), refreshToken, googleAuth and
\* convertGuestToRegistered all fail without issuing tokens for such a user.
C37_NoTokensForInactive ==
    \A u \in users :
        (~u.isActive \/ u.isDeleted) =>
            /\ \A password \in Passwords :
                   NothingIssued(login(Cur, u.email, password), u)
            /\ \A otp \in Codes :
                   NothingIssued(verifyOtp(Cur, u.email, otp, "emailVerification"), u)
            /\ \A t \in RefreshTokens(Cur) :
                   t.uid = u.id => NothingIssued(refreshToken(Cur, t), u)
            /\ \A emailVerified \in BOOLEAN :
                   NothingIssued(googleAuth(Cur, u.email, emailVerified), u)
            /\ \A email \in Emails, password \in Passwords, otp \in Codes :
                   NothingIssued(convertGuestToRegistered(Cur, u.id, email, password,
                                                          otp, TRUE), u)

\* C38: logout(userId, t) revokes only the caller's own session: t is inserted
\* into the revoked-token cache only if t was issued for userId, so a user cannot
\* make another user's refresh token unusable by presenting it to logout, and
\* the stored refreshToken that logout clears is the one of the user the
\* presented token belongs to.
C38_LogoutOwnSessionOnly ==
    \A caller \in users, t \in RefreshTokens(Cur) :
        LET res == logout(Cur, caller.id, t)
        IN  /\ (isTokenBlacklisted(res.w, t) /\ ~isTokenBlacklisted(Cur, t)) =>
                   t.uid = caller.id
            /\ \A u \in users :
                   \A v \in StoreById(res.w, u.id) :
                       v.refreshToken # u.refreshToken => u.id = t.uid
            /\ (t.uid # caller.id /\ Ok(refreshToken(Cur, t).r)) =>
                   Ok(refreshToken(res.w, t).r)

\* the OTP state of the world res.w is that of the current world
OtpStateUnchanged(res, email) ==
    /\ \A u \in StoreByEmail(Cur, email) :
           \A v \in StoreById(res.w, u.id) :
               v.otpCode = u.otpCode /\ v.otpExpiresAt = u.otpExpiresAt
    /\ res.w.otpCache = otpCache
    /\ \A type \in OtpTypes :
           Acceptable(res.w, email, type) = Acceptable(Cur, email, type)

\* C39: a resendOtp or forgotPassword call that fails with BadRequest (400)
\* because the email could not be sent leaves the OTP state unchanged: the
\* user's otpCode/otpExpiresAt and the OTP cache entries are the same as before
\* the call, so the previously delivered code is still accepted and no
\* undelivered code is.
C39_MailFailureLeavesOtp ==
    \A email \in Emails, otpCode \in Codes :
        /\ \A type \in OtpTypes :
               LET res == resendOtp(Cur, email, type, otpCode, FALSE)
               IN  res.r.status = 400 => OtpStateUnchanged(res, email)
        /\ LET res == forgotPassword(Cur, email, otpCode, FALSE)
           IN  res.r.status = 400 => OtpStateUnchanged(res, email)

\* C40: in every reachable state every user with userType GUEST has
\* isEmailVerified true, including the intermediate states inside
\* convertGuestToRegistered (between its profile update and its
\* userType/isEmailVerified update) and after any googleAuth, updateProfile or
\* verifyOtp on that user.
C40_GuestsAreVerified ==
    \A u \in users : u.userType = "GUEST" => u.isEmailVerified

\* C40 witness: a conversion is between its profile update and its update of
\* userType: the row is still a GUEST, already under the new email
C40_Witness ==
    \E s \in Slots :
        /\ inflight[s].op = "convertGuest" /\ inflight[s].pc = "mark"
        /\ \E u \in users :
               /\ u.id = inflight[s].token.uid /\ u.userType = "GUEST"
               /\ u.email = inflight[s].email /\ u.signupMethod = "EMAIL"
               /\ u.isEmailVerified

====
